---- MODULE Spec2Model ----
(***************************************************************************)
(* A model of @sabl/db-api: the two connection operation queues            *)
(* (QueueConn in src/src/queue-conn.ts, DbConnBase in                      *)
(* src/src/dbconn-base.ts), the transaction (DbTxnBase in                  *)
(* src/unnamed/part_002) and the row cursors (RowStream, SqliteRows in     *)
(* src/unnamed/part_008), each in a variable of its own (qc, dc, tx, rs,   *)
(* sr) and each taken alone by a specification of its own; and the pool    *)
(* (DbPoolBase in src/unnamed/part_001, variable pl) taken together with   *)
(* the QueueConn it wraps a driver connection in. The row views of         *)
(* src/unnamed/part_005 are functions; variable rw holds a row and what    *)
(* was read from it.                                                       *)
(*                                                                         *)
(* JavaScript runs every handler to its next await without interruption,  *)
(* so one action is one such run: an API call, the settling of a driver   *)
(* call, a setTimeout callback, a 'complete' event of a cursor or of a    *)
(* transaction, the cancellation of a context, a promise's catch handler. *)
(*                                                                         *)
(* Each connection object is one record-valued variable whose fields are  *)
(* the object's private fields, plus what is in flight around it:         *)
(*   drv     the operations whose driver call has started and not settled *)
(*   timers  the number of scheduled setTimeout(() => this.#next(), 0)    *)
(*   open    the operations whose cursor / transaction is open and        *)
(*           carries a 'complete' callback that runs #next; a cursor and  *)
(*           a transaction emit 'complete' once                           *)
(*   handlers (QueueConn) the operations whose promise was rejected with  *)
(*           a cancellation error and whose catch handler, a microtask,   *)
(*           has not run yet, in the order of the rejections              *)
(* and what a caller can observe:                                          *)
(*   ph        per accepted call, in the order of the calls, the state of *)
(*             the promise it returned                                     *)
(*   log       the operations in the order their driver call was started  *)
(*   refused   the number of calls refused by #checkStatus                 *)
(*   closeRet  per close() call, the promise returned and the pending     *)
(*             close promise there was at the time of the call            *)
(*   resolvedP the close promises resolved so far                          *)
(*   complete  the number of times 'complete' was emitted                  *)
(* An operation is a record of its number (its place among the accepted   *)
(* calls, which is also its promise's place in ph) and its type. Promise  *)
(* 0 stands for Promise.resolve(): a promise already resolved.            *)
(***************************************************************************)
EXTENDS Integers, Sequences, FiniteSets, TLC

VARIABLES qc, dc, tx, rs, sr, pl, rw, em

vars == <<qc, dc, tx, rs, sr, pl, rw, em>>

\* The number of exec/queryRow/query/beginTxn calls made on one connection.
MaxOps == 3
\* The number of close() calls made on one connection.
MaxClose == 2
\* The number of caller contexts cancelled.
MaxCancel == 1
\* The number of start() calls made on one transaction.
MaxStart == 2
\* The number of commit() and rollback() calls made on one transaction.
MaxFin == 2
\* The number of exec/queryRow/query calls made on one transaction.
MaxTxOps == 2
\* The number of rows a producer pushes into one cursor.
MaxPush == 3
\* The number of next() calls made on one cursor.
MaxNext == 4
\* The number of close() calls made on one cursor.
MaxRowsClose == 2
\* The largest pauseCount a cursor is created with.
MaxPause == 2
\* The number of callbacks registered on one emitter from outside.
MaxCbs == 2
\* The number of callbacks that register another callback when they run.
MaxChild == 1
\* The number of off() calls made on one emitter.
MaxOff == 1
\* The number of emit() calls made on one emitter.
MaxEmits == 2

OpTypes == {"exec", "queryRow", "query", "beginTxn"}

\* How a driver call settles: a value, an error, a cancellation error.
Outcomes == {"ok", "err", "canceled"}

Range(seq) == {seq[k] : k \in 1..Len(seq)}

Ids(ops) == {op.id : op \in ops}

\* Array.prototype.splice(ix, 1) on a queue given as a sequence, ix counted
\* from 1; splice(-1, 1), which is what indexOf's "not found" gives, removes
\* the last element.
SpliceOne(seq, ix) ==
  LET at == IF ix = 0 THEN Len(seq) ELSE ix
  IN  IF Len(seq) = 0 THEN seq
      ELSE SubSeq(seq, 1, at - 1) \o SubSeq(seq, at + 1, Len(seq))

\* Array.prototype.indexOf of the operation numbered i, counted from 1; 0
\* when not found.
IndexOf(seq, i) ==
  IF \E k \in 1..Len(seq) : seq[k].id = i
  THEN CHOOSE k \in 1..Len(seq) : seq[k].id = i
  ELSE 0

\* Settling a promise: only a pending promise changes state.
Settle(st, to) == IF st = "pending" THEN to ELSE st

(***************************************************************************)
(* QueueConn                                                               *)
(***************************************************************************)

QueueConn_new(keepOpen) ==
  [ keepOpen  |-> keepOpen,
    con       |-> TRUE,
    closed    |-> FALSE,
    closing   |-> FALSE,
    busy      |-> FALSE,
    waitClose |-> 0,
    opQueue   |-> <<>>,
    drv       |-> {},
    timers    |-> 0,
    open      |-> {},
    handlers  |-> <<>>,
    ph        |-> <<>>,
    log       |-> <<>>,
    refused   |-> 0,
    cancels   |-> 0,
    nextPid   |-> 1,
    closeRet  |-> <<>>,
    resolvedP |-> {},
    complete  |-> 0 ]

QueueConn_checkStatus(s) == ~s.closed

QueueConn_done(s) ==
  IF s.closed THEN s
  ELSE [s EXCEPT !.closed = TRUE,
                 !.con = FALSE,
                 !.waitClose = 0,
                 !.resolvedP = IF s.waitClose # 0 THEN @ \cup {s.waitClose} ELSE @,
                 !.complete = @ + 1]

RECURSIVE QueueConn_next(_)
RECURSIVE QueueConn_start(_)
RECURSIVE QueueConn_close(_)

\* A faulty variant of #next: the empty-queue branch does not consult
\* #keepOpen and closes the connection whenever the queue has drained.
QueueConn_next_selfClose(s) ==
  IF s.opQueue = <<>> THEN
    LET s1 == [s EXCEPT !.busy = FALSE]
    IN  IF s1.closing THEN QueueConn_done(s1)
        ELSE QueueConn_close(s1).s
  ELSE
    LET nextOp == Head(s.opQueue)
        s1     == [s EXCEPT !.opQueue = Tail(@)]
    IN  IF s1.con
        THEN [s1 EXCEPT !.drv = @ \cup {nextOp}, !.log = Append(@, nextOp.id)]
        ELSE [s1 EXCEPT !.ph[nextOp.id] = Settle(@, "rejected"), !.timers = @ + 1]

\* A faulty variant of #start: the busy flag is not consulted.
QueueConn_start_nobusy(s) == QueueConn_next([s EXCEPT !.busy = TRUE])

QueueConn_start(s) ==
  IF s.busy THEN s ELSE QueueConn_next([s EXCEPT !.busy = TRUE])

\* A faulty variant of close(): a close that is already pending is not
\* recognised.
QueueConn_close_fresh(s) ==
  IF s.closed THEN [s |-> s, ret |-> 0]
  ELSE [s   |-> QueueConn_start([s EXCEPT !.closing = TRUE,
                                          !.waitClose = s.nextPid,
                                          !.nextPid = @ + 1]),
        ret |-> s.nextPid]

\* close(): the state after the call and the promise it returns.
QueueConn_close(s) ==
  IF s.closed THEN [s |-> s, ret |-> 0]
  ELSE IF s.closing THEN [s |-> s, ret |-> s.waitClose]
  ELSE [s   |-> QueueConn_start([s EXCEPT !.closing = TRUE,
                                          !.waitClose = s.nextPid,
                                          !.nextPid = @ + 1]),
        ret |-> s.nextPid]

\* #next up to its await: the empty-queue branch, or the start of the driver
\* call of the head of the queue. A driver call on the connection that #done
\* has set to null throws inside the try block: the operation is rejected
\* and the next #next is scheduled.
QueueConn_next(s) ==
  IF s.opQueue = <<>> THEN
    LET s1 == [s EXCEPT !.busy = FALSE]
    IN  IF s1.closing THEN QueueConn_done(s1)
        ELSE IF ~s1.keepOpen THEN QueueConn_close(s1).s
        ELSE s1
  ELSE
    LET nextOp == Head(s.opQueue)
        s1     == [s EXCEPT !.opQueue = Tail(@)]
    IN  IF s1.con
        THEN [s1 EXCEPT !.drv = @ \cup {nextOp}, !.log = Append(@, nextOp.id)]
        ELSE [s1 EXCEPT !.ph[nextOp.id] = Settle(@, "rejected"), !.timers = @ + 1]

\* The catch handler #enqueue puts on the promise of operation i, run for a
\* cancellation error (any other reason is rethrown and changes nothing):
\* queue.splice(queue.indexOf(req), 1).
QueueConn_onRejected(s, i) ==
  [s EXCEPT !.opQueue = SpliceOne(@, IndexOf(@, i))]

\* ph.reject(e), by nextOp.reject or by the cancellation of the context
\* given to promise(ctx): the promise rejects if it is still pending, and
\* the catch handler of #enqueue is queued as a microtask.
QueueConn_reject(s, i, canceled) ==
  IF s.ph[i] # "pending" THEN s
  ELSE IF canceled
  THEN [s EXCEPT !.ph[i] = "canceled", !.handlers = Append(@, i)]
  ELSE [s EXCEPT !.ph[i] = "rejected"]

QueueConn_enqueue(s, type) ==
  QueueConn_start([s EXCEPT !.ph = Append(@, "pending"),
                            !.opQueue = Append(@, [id |-> Len(s.ph) + 1, type |-> type])])

\* A faulty variant of #next's continuation: the query branch does not
\* return after resolving the caller with the cursor.
QueueConn_settled_fallthrough(s, nextOp, out) ==
  LET s1 == [s EXCEPT !.drv = @ \ {nextOp}]
  IN  IF out = "ok"
      THEN [s1 EXCEPT !.ph[nextOp.id] = Settle(@, "resolved"),
                      !.open = IF nextOp.type \in {"query", "beginTxn"}
                               THEN @ \cup {nextOp} ELSE @,
                      !.timers = IF nextOp.type = "beginTxn" THEN @ ELSE @ + 1]
      ELSE [QueueConn_reject(s1, nextOp.id, out = "canceled") EXCEPT !.timers = @ + 1]

\* #next after its await: the driver call of nextOp has settled. A cursor or
\* a transaction gets the 'complete' callback and holds the queue;
\* everything else schedules the next #next.
QueueConn_settled(s, nextOp, out) ==
  LET s1 == [s EXCEPT !.drv = @ \ {nextOp}]
  IN  IF out = "ok"
      THEN IF nextOp.type \in {"query", "beginTxn"}
           THEN [s1 EXCEPT !.ph[nextOp.id] = Settle(@, "resolved"),
                           !.open = @ \cup {nextOp}]
           ELSE [s1 EXCEPT !.ph[nextOp.id] = Settle(@, "resolved"),
                           !.timers = @ + 1]
      ELSE [QueueConn_reject(s1, nextOp.id, out = "canceled") EXCEPT !.timers = @ + 1]

\* exec, queryRow, query, beginTxn
QSubmit ==
  /\ Len(qc.ph) + qc.refused < MaxOps
  /\ \E type \in OpTypes :
       qc' = IF QueueConn_checkStatus(qc)
             THEN QueueConn_enqueue(qc, type)
             ELSE [qc EXCEPT !.refused = @ + 1]
  /\ UNCHANGED <<dc, tx, rs, sr, pl, rw, em>>

\* close(), called from outside
QClose ==
  /\ Len(qc.closeRet) < MaxClose
  /\ LET r == QueueConn_close(qc)
     IN  qc' = [r.s EXCEPT !.closeRet =
                  Append(@, [ret |-> r.ret, pending |-> qc.waitClose])]
  /\ UNCHANGED <<dc, tx, rs, sr, pl, rw, em>>

\* the driver call of an operation settles
QDriverSettles ==
  /\ qc.handlers = <<>>
  /\ \E nextOp \in qc.drv, out \in Outcomes : qc' = QueueConn_settled(qc, nextOp, out)
  /\ UNCHANGED <<dc, tx, rs, sr, pl, rw, em>>

\* setTimeout(() => this.#next(), 0) fires
QTimer ==
  /\ qc.handlers = <<>>
  /\ qc.timers > 0
  /\ qc' = QueueConn_next([qc EXCEPT !.timers = @ - 1])
  /\ UNCHANGED <<dc, tx, rs, sr, pl, rw, em>>

\* a cursor or a transaction emits 'complete'
QComplete ==
  /\ \E op \in qc.open : qc' = QueueConn_next([qc EXCEPT !.open = @ \ {op}])
  /\ UNCHANGED <<dc, tx, rs, sr, pl, rw, em>>

\* the context of an operation whose promise is pending is cancelled:
\* promise(ctx) rejects with a cancellation error
QCancelCtx ==
  /\ qc.cancels < MaxCancel
  /\ \E i \in 1..Len(qc.ph) :
       /\ qc.ph[i] = "pending"
       /\ qc' = [QueueConn_reject(qc, i, TRUE) EXCEPT !.cancels = @ + 1]
  /\ UNCHANGED <<dc, tx, rs, sr, pl, rw, em>>

\* the catch handler of a promise rejected with a cancellation error runs.
\* It is a microtask: it runs before any timer and before the continuation
\* of any driver call that settles later, but calls made in the same turn
\* as the rejection (exec, close, a cursor's close that emits 'complete')
\* run before it.
QCatch ==
  /\ qc.handlers # <<>>
  /\ qc' = QueueConn_onRejected([qc EXCEPT !.handlers = Tail(@)], Head(qc.handlers))
  /\ UNCHANGED <<dc, tx, rs, sr, pl, rw, em>>

(***************************************************************************)
(* DbConnBase                                                              *)
(*                                                                         *)
(* hasClr      the root context has a canceler (ctx.canceler is not null)   *)
(* onCancelReg the constructor's onCancel callback is still registered on  *)
(*             the root canceler                                           *)
(* rootCanceled the root context has been cancelled                        *)
(***************************************************************************)

DbConnBase_new(keepOpen, hasClr) ==
  [ keepOpen     |-> keepOpen,
    hasClr       |-> hasClr,
    onCancelReg  |-> hasClr,
    rootCanceled |-> FALSE,
    closed       |-> FALSE,
    busy         |-> FALSE,
    canceled     |-> FALSE,
    waitClose    |-> 0,
    opQueue      |-> <<>>,
    drv          |-> {},
    timers       |-> 0,
    open         |-> {},
    ph           |-> <<>>,
    log          |-> <<>>,
    refused      |-> 0,
    nextPid      |-> 1,
    closeRet     |-> <<>>,
    resolvedP    |-> {},
    complete     |-> 0,
    cbs          |-> {},
    offs         |-> 0,
    drvCanceled  |-> {} ]

\* The context a caller gives to an operation: "root" has the canceler of
\* the connection's root context (ctx.canceler === this.#clr), "other" has
\* a different canceler or none.
CtxKinds(s) == IF s.hasClr THEN {"root", "other"} ELSE {"other"}

DbConnBase_checkStatus(s) == ~s.closed

\* close(): the state after the call and the promise it returns.
DbConnBase_close(s) ==
  IF s.closed THEN [s |-> s, ret |-> 0]
  ELSE IF s.waitClose # 0
  THEN [s |-> [s EXCEPT !.closed = TRUE], ret |-> s.waitClose]
  ELSE [s   |-> [s EXCEPT !.closed = TRUE, !.waitClose = s.nextPid, !.nextPid = @ + 1],
        ret |-> s.nextPid]

\* #done: deregister onCancel, cleanUp(), resolve the pending close, emit
\* 'complete'.
DbConnBase_done(s) ==
  [s EXCEPT !.onCancelReg = FALSE,
            !.waitClose = 0,
            !.resolvedP = IF s.waitClose # 0 THEN @ \cup {s.waitClose} ELSE @,
            !.complete = @ + 1]

\* A faulty variant of #wrapContext: the cancel function of the wrapped
\* context is not registered on the root canceler.
DbConnBase_wrapContext_none(s, nextOp) == s

\* #wrapContext(nextOp.ctx): without a root canceler, or for a context of
\* the root's canceler, the context is passed on as it is and the cancel
\* function is noOp; otherwise the cancel function of withCancel(ctx) is
\* registered on the root canceler.
DbConnBase_wrapContext(s, nextOp) ==
  IF ~s.hasClr \/ nextOp.ctx = "root" THEN s
  ELSE [s EXCEPT !.cbs = @ \cup {nextOp.id}]

\* A faulty variant of the cancel function: the callback stays registered.
DbConnBase_wrappedCancel_keep(s, nextOp) == s

\* The cancel function #wrapContext returned for nextOp: noOp where nothing
\* was registered, otherwise clr.off(cancel); cancel(). offs counts the
\* callbacks taken off the root canceler.
DbConnBase_wrappedCancel(s, nextOp) ==
  IF nextOp.id \notin s.cbs THEN s
  ELSE [s EXCEPT !.cbs = @ \ {nextOp.id}, !.offs = @ + 1]

\* #next up to its await: the empty-queue branch, or the start of the driver
\* call of the head of the queue.
DbConnBase_next(s) ==
  IF s.opQueue = <<>> THEN
    LET s1 == [s EXCEPT !.busy = FALSE]
    IN  IF s1.keepOpen THEN s1 ELSE DbConnBase_done(s1)
  ELSE
    LET nextOp == Head(s.opQueue)
    IN  [DbConnBase_wrapContext(s, nextOp) EXCEPT
                  !.opQueue = Tail(@),
                  !.drv = @ \cup {nextOp},
                  !.log = Append(@, nextOp.id)]

DbConnBase_start(s) ==
  IF s.busy THEN s ELSE DbConnBase_next([s EXCEPT !.busy = TRUE])

\* #cancel, the callback the constructor registers on the root canceler.
DbConnBase_cancel(s) ==
  IF s.canceled THEN s
  ELSE LET s1 == DbConnBase_close(s).s
           s2 == [s1 EXCEPT
                    !.canceled = TRUE,
                    !.ph = [k \in 1..Len(s1.ph) |->
                              IF k \in Ids(Range(s1.opQueue))
                              THEN Settle(s1.ph[k], "connCanceled")
                              ELSE s1.ph[k]],
                    !.opQueue = <<>>]
       IN  DbConnBase_start(s2)

DbConnBase_enqueue(s, type, ctx) ==
  DbConnBase_start([s EXCEPT !.ph = Append(@, "pending"),
                             !.opQueue =
                               Append(@, [id |-> Len(s.ph) + 1, type |-> type, ctx |-> ctx])])

\* #next after its await: the driver call of nextOp has settled. Only the
\* beginTxn branch returns after resolving its caller; every other path
\* reaches the setTimeout at the end of #next.
DbConnBase_settled(s, nextOp, out) ==
  LET s1 == [s EXCEPT !.drv = @ \ {nextOp}]
  IN  IF out = "ok"
      THEN IF nextOp.type = "beginTxn"
           THEN [s1 EXCEPT !.ph[nextOp.id] = Settle(@, "resolved"),
                           !.open = @ \cup {nextOp}]
           ELSE IF nextOp.type = "query"
           THEN [s1 EXCEPT !.ph[nextOp.id] = Settle(@, "resolved"),
                           !.open = @ \cup {nextOp},
                           !.timers = @ + 1]
           ELSE [DbConnBase_wrappedCancel(s1, nextOp) EXCEPT
                           !.ph[nextOp.id] = Settle(@, "resolved"),
                           !.timers = @ + 1]
      ELSE [DbConnBase_wrappedCancel(s1, nextOp) EXCEPT
                           !.ph[nextOp.id] = Settle(@, "rejected"),
                           !.timers = @ + 1]

\* The callback #next puts on the 'complete' of a cursor or a transaction:
\* cancel(); this.#next().
DbConnBase_onComplete(s, op) ==
  DbConnBase_next(DbConnBase_wrappedCancel([s EXCEPT !.open = @ \ {op}], op))

\* The root canceler cancels: the contexts of its own tree are cancelled,
\* and it runs its callbacks, the constructor's #cancel first and then the
\* cancel functions #wrapContext registered. drvCanceled collects the
\* operations in flight, or with a cursor or a transaction open, whose
\* driver context is cancelled by that.
DbConnBase_rootCancel(s) ==
  LET s1 == [s EXCEPT !.rootCanceled = TRUE,
                      !.drvCanceled = @ \cup
                        {op \in s.drv \cup s.open :
                           op.ctx = "root" \/ op.id \in s.cbs}]
  IN  IF s1.onCancelReg THEN DbConnBase_cancel(s1) ELSE s1

\* exec, queryRow, query, beginTxn
DSubmit ==
  /\ Len(dc.ph) + dc.refused < MaxOps
  /\ \E type \in OpTypes, ctx \in CtxKinds(dc) :
       dc' = IF DbConnBase_checkStatus(dc)
             THEN DbConnBase_enqueue(dc, type, ctx)
             ELSE [dc EXCEPT !.refused = @ + 1]
  /\ UNCHANGED <<qc, tx, rs, sr, pl, rw, em>>

\* close(), called from outside
DClose ==
  /\ Len(dc.closeRet) < MaxClose
  /\ LET r == DbConnBase_close(dc)
     IN  dc' = [r.s EXCEPT !.closeRet =
                  Append(@, [ret |-> r.ret, pending |-> dc.waitClose])]
  /\ UNCHANGED <<qc, tx, rs, sr, pl, rw, em>>

\* the driver call of an operation settles
DDriverSettles ==
  /\ \E nextOp \in dc.drv, out \in {"ok", "err"} :
       dc' = DbConnBase_settled(dc, nextOp, out)
  /\ UNCHANGED <<qc, tx, rs, sr, pl, rw, em>>

\* setTimeout(() => this.#next(), 0) fires
DTimer ==
  /\ dc.timers > 0
  /\ dc' = DbConnBase_next([dc EXCEPT !.timers = @ - 1])
  /\ UNCHANGED <<qc, tx, rs, sr, pl, rw, em>>

\* a cursor or a transaction emits 'complete': cancel(); this.#next()
DComplete ==
  /\ \E op \in dc.open : dc' = DbConnBase_onComplete(dc, op)
  /\ UNCHANGED <<qc, tx, rs, sr, pl, rw, em>>

\* the root context is cancelled: the canceler runs its callbacks
DCancelRoot ==
  /\ dc.hasClr
  /\ ~dc.rootCanceled
  /\ dc' = DbConnBase_rootCancel(dc)
  /\ UNCHANGED <<qc, tx, rs, sr, pl, rw, em>>

(***************************************************************************)
(* DbTxnBase (src/unnamed/part_002)                                        *)
(*                                                                         *)
(* The transaction's fields are closed, started and its options:           *)
(*   level  opts.isolationLevel: "none" (null), "default", "supported"     *)
(*          or "unsupported" (supportsIsolationLevel is false, or          *)
(*          isolationLevelKeyword throws)                                  *)
(*   ro     opts.readOnly: "none" (not a boolean), "supported" or          *)
(*          "unsupported" (a boolean and supportsReadOnly is false)        *)
(* The inner connection is known by its interface (DbConn): once close()   *)
(* has been called on it it takes no further statement, and its close      *)
(* promise resolves, and its 'complete' is emitted, some time later.       *)
(*   ilog       what was called on the inner connection, in order: the     *)
(*              statements and "close"                                     *)
(*   closeDone  the inner connection has completed                         *)
(*   complete   the number of 'complete' events the transaction emitted    *)
(* and the calls made on the transaction:                                  *)
(*   startPhase where the start() call in progress stands: "set" and       *)
(*              "begin" await a statement, "closing" awaits con.close()    *)
(*   starts     per start() call the state of its promise; a caller        *)
(*              awaits start() before calling it again, as _beginTxn does  *)
(*   nfin       the number of commit() and rollback() calls made           *)
(*   finRes     what the latest of them did: what #checkStatus threw, or   *)
(*              "accepted"                                                 *)
(*   finCall    the call, commit or rollback, that got past #checkStatus   *)
(*   finStmt    how the statement of that call stands                      *)
(*   finP       the promise of the accepted commit() / rollback() call     *)
(*   ncalls     the number of exec/queryRow/query calls made               *)
(*   callRes    what the latest of them did: what #checkStatus threw,      *)
(*              "sent" (given to the inner connection) or "connClosed"     *)
(*              (refused by the inner connection)                          *)
(***************************************************************************)

Levels == {"none", "default", "supported", "unsupported"}

ReadOnlyModes == {"none", "supported", "unsupported"}

TxOps == {"exec", "queryRow", "query"}

DbTxnBase_new(level, ro) ==
  [ closed     |-> FALSE,
    started    |-> FALSE,
    level      |-> level,
    ro         |-> ro,
    ilog       |-> <<>>,
    closeDone  |-> FALSE,
    complete   |-> 0,
    startPhase |-> "idle",
    starts     |-> <<>>,
    nfin       |-> 0,
    finRes     |-> "none",
    finCall    |-> "none",
    finStmt    |-> "none",
    finP       |-> "none",
    ncalls     |-> 0,
    callRes    |-> "none" ]

\* A faulty variant of #checkStatus: started is not tested.
DbTxnBase_checkStatus_nostart(t) ==
  IF t.closed THEN "alreadyClosed" ELSE "ok"

\* A faulty variant of #checkStatus: #closed is not tested.
DbTxnBase_checkStatus_noclosed(t) ==
  IF ~t.started THEN "notStarted" ELSE "ok"

\* #checkStatus: what it throws, or "ok".
DbTxnBase_checkStatus(t) ==
  IF t.closed THEN "alreadyClosed"
  ELSE IF ~t.started THEN "notStarted"
  ELSE "ok"

\* The inner connection takes a statement: close() has not been called.
Inner_accepts(t) == "close" \notin Range(t.ilog)

\* this.con.close()
Inner_close(t) == [t EXCEPT !.ilog = Append(@, "close")]

\* A faulty variant of start()'s catch block: con.close() is called but not
\* awaited.
DbTxnBase_startFailed_noawait(t) ==
  [Inner_close(t) EXCEPT !.startPhase = "idle",
                         !.starts[Len(t.starts)] = "rejected"]

\* start()'s catch block up to its await: await this.con.close()
DbTxnBase_startFailed(t) ==
  [Inner_close(t) EXCEPT !.startPhase = "closing"]

\* start() from the read-only test to the await of START TRANSACTION.
DbTxnBase_startBegin(t) ==
  IF t.ro = "unsupported" \/ ~Inner_accepts(t)
  THEN DbTxnBase_startFailed(t)
  ELSE [t EXCEPT !.ilog = Append(@, "START"), !.startPhase = "begin"]

\* start() up to its first await.
DbTxnBase_start(t) ==
  LET t1 == [t EXCEPT !.starts = Append(@, "pending")]
  IN  IF t1.level \in {"supported", "unsupported"}
      THEN IF t1.level = "unsupported" \/ ~Inner_accepts(t1)
           THEN DbTxnBase_startFailed(t1)
           ELSE [t1 EXCEPT !.ilog = Append(@, "SET"), !.startPhase = "set"]
      ELSE DbTxnBase_startBegin(t1)

\* start() after the statement it awaits has settled.
DbTxnBase_startSettled(t, ok) ==
  IF ~ok THEN DbTxnBase_startFailed(t)
  ELSE IF t.startPhase = "set" THEN DbTxnBase_startBegin(t)
  ELSE [t EXCEPT !.started = TRUE,
                 !.startPhase = "idle",
                 !.starts[Len(t.starts)] = "resolved"]

\* start()'s catch block after its await: throw err
DbTxnBase_startThrows(t) ==
  [t EXCEPT !.startPhase = "idle", !.starts[Len(t.starts)] = "rejected"]

\* exec, queryRow, query
DbTxnBase_op(t, op) ==
  LET st == DbTxnBase_checkStatus(t)
  IN  IF st # "ok" THEN [t EXCEPT !.ncalls = @ + 1, !.callRes = st]
      ELSE IF Inner_accepts(t)
      THEN [t EXCEPT !.ncalls = @ + 1, !.callRes = "sent", !.ilog = Append(@, op)]
      ELSE [t EXCEPT !.ncalls = @ + 1, !.callRes = "connClosed"]

\* A faulty variant of Promise.all([pCommit, pClose]): the close promise is
\* not waited for.
DbTxnBase_all_stmtOnly(t) ==
  IF t.finP # "pending" THEN t
  ELSE IF t.finStmt = "err" THEN [t EXCEPT !.finP = "rejected"]
  ELSE IF t.finStmt = "ok" THEN [t EXCEPT !.finP = "resolved"]
  ELSE t

\* Promise.all([pCommit, pClose]): rejected as soon as the statement is,
\* resolved once the statement and the close are.
DbTxnBase_all(t) ==
  IF t.finP # "pending" THEN t
  ELSE IF t.finStmt = "err" THEN [t EXCEPT !.finP = "rejected"]
  ELSE IF t.finStmt = "ok" /\ t.closeDone THEN [t EXCEPT !.finP = "resolved"]
  ELSE t

\* this.con.exec(ctx, stmt) in an async function: a refusal by the inner
\* connection is a rejection.
Inner_exec(t, stmt) ==
  IF Inner_accepts(t)
  THEN [t EXCEPT !.ilog = Append(@, stmt), !.finStmt = "pending"]
  ELSE [t EXCEPT !.finStmt = "err"]

DbTxnBase__commit(t) == Inner_exec(t, "COMMIT")

DbTxnBase__rollback(t) == Inner_exec(t, "ROLLBACK")

\* A faulty variant of commit(): the status is checked but the transaction
\* is not marked closed.
DbTxnBase_commit_open(t) ==
  LET st == DbTxnBase_checkStatus(t)
  IN  IF st # "ok" THEN [t EXCEPT !.nfin = @ + 1, !.finRes = st]
      ELSE DbTxnBase_all(
             [Inner_close(DbTxnBase__commit(t))
                EXCEPT !.finP = "pending",
                       !.finCall = "commit",
                       !.nfin = @ + 1,
                       !.finRes = "accepted"])

\* commit() up to its await.
DbTxnBase_commit(t) ==
  LET st == DbTxnBase_checkStatus(t)
  IN  IF st # "ok" THEN [t EXCEPT !.nfin = @ + 1, !.finRes = st]
      ELSE DbTxnBase_all(
             [Inner_close(DbTxnBase__commit([t EXCEPT !.closed = TRUE]))
                EXCEPT !.finP = "pending",
                       !.finCall = "commit",
                       !.nfin = @ + 1,
                       !.finRes = "accepted"])

\* rollback() up to its await.
DbTxnBase_rollback(t) ==
  LET st == DbTxnBase_checkStatus(t)
  IN  IF st # "ok" THEN [t EXCEPT !.nfin = @ + 1, !.finRes = st]
      ELSE DbTxnBase_all(
             [Inner_close(DbTxnBase__rollback([t EXCEPT !.closed = TRUE]))
                EXCEPT !.finP = "pending",
                       !.finCall = "rollback",
                       !.nfin = @ + 1,
                       !.finRes = "accepted"])

\* start() is called
TStart ==
  /\ Len(tx.starts) < MaxStart
  /\ tx.startPhase = "idle"
  /\ tx' = DbTxnBase_start(tx)
  /\ UNCHANGED <<qc, dc, rs, sr, pl, rw, em>>

\* the statement start() awaits settles
TStartStmtSettles ==
  /\ tx.startPhase \in {"set", "begin"}
  /\ \E ok \in BOOLEAN : tx' = DbTxnBase_startSettled(tx, ok)
  /\ UNCHANGED <<qc, dc, rs, sr, pl, rw, em>>

\* the close promise start() awaits has resolved
TStartThrows ==
  /\ tx.startPhase = "closing"
  /\ tx.closeDone
  /\ tx' = DbTxnBase_startThrows(tx)
  /\ UNCHANGED <<qc, dc, rs, sr, pl, rw, em>>

\* exec, queryRow, query are called
TOp ==
  /\ tx.ncalls < MaxTxOps
  /\ \E op \in TxOps : tx' = DbTxnBase_op(tx, op)
  /\ UNCHANGED <<qc, dc, rs, sr, pl, rw, em>>

\* commit(), rollback() are called
TFinish ==
  /\ tx.nfin < MaxFin
  /\ \/ tx' = DbTxnBase_commit(tx)
     \/ tx' = DbTxnBase_rollback(tx)
  /\ UNCHANGED <<qc, dc, rs, sr, pl, rw, em>>

\* the COMMIT / ROLLBACK statement settles
TFinStmtSettles ==
  /\ tx.finStmt = "pending"
  /\ \E ok \in BOOLEAN :
       tx' = DbTxnBase_all([tx EXCEPT !.finStmt = IF ok THEN "ok" ELSE "err"])
  /\ UNCHANGED <<qc, dc, rs, sr, pl, rw, em>>

\* the inner connection completes: its close promise resolves and its
\* 'complete' event is bubbled up by the constructor's callback
TInnerComplete ==
  /\ ~Inner_accepts(tx)
  /\ ~tx.closeDone
  /\ tx' = DbTxnBase_all([tx EXCEPT !.closeDone = TRUE, !.complete = @ + 1])
  /\ UNCHANGED <<qc, dc, rs, sr, pl, rw, em>>

(***************************************************************************)
(* RowStream, the row cursor with backpressure. Its tests are in           *)
(* src/unnamed/part_008 (from line 156); the cursor is written here from   *)
(* section 4.3 of the specification and from what these tests show.        *)
(*                                                                         *)
(*   P, R      the options pauseCount and resumeCount, R <= P              *)
(*   hasClr    the cursor was created with a canceler                      *)
(*   clrReg    its cancellation callback is registered on the canceler     *)
(*   ready     the columns have been announced                             *)
(*   buf       the buffered rows; a row is the number of its push          *)
(*   row       the current row, 0 when none is loaded                      *)
(*   done      the producer has signalled end                              *)
(*   err       the producer has signalled an error; errIn is the value it  *)
(*             gave ("null" or the message of an Error), errVal the        *)
(*             message of the cursor's err property, nextErr the message   *)
(*             of the error a next() call was rejected with ("none" when   *)
(*             there is none)                                              *)
(*   canceling cancellation has been requested (by close(), by the         *)
(*             producer's error, by the context)                           *)
(*   closed    the cursor is closed                                        *)
(*   waitNext  a next() call is pending                                    *)
(* and what the consumer and the producer observe:                         *)
(*   nexts     per next() call, in the order of the calls, how it stands:  *)
(*             "pending", "true", "false", "error" (the producer's error), *)
(*             "canceled", "busy" (another next() was pending)             *)
(*   loaded    the rows next() has loaded, in order                        *)
(*   pushes    the number of rows pushed; dropped, those discarded         *)
(*   closePending, closeResolved  the close() promises pending / resolved  *)
(*   complete, pauses, resumes, cancels  the number of times 'complete',   *)
(*             'pause', 'resume', 'cancel' fired                           *)
(***************************************************************************)

RowStream_new(P, R, hasClr) ==
  [ P             |-> P,
    R             |-> R,
    hasClr        |-> hasClr,
    clrReg        |-> hasClr,
    ready         |-> FALSE,
    buf           |-> <<>>,
    row           |-> 0,
    done          |-> FALSE,
    err           |-> FALSE,
    errIn         |-> "none",
    errVal        |-> "none",
    nextErr       |-> "none",
    canceling     |-> FALSE,
    closed        |-> FALSE,
    waitNext      |-> FALSE,
    nexts         |-> <<>>,
    loaded        |-> <<>>,
    pushes        |-> 0,
    dropped       |-> 0,
    closePending  |-> 0,
    closeResolved |-> 0,
    complete      |-> 0,
    pauses        |-> 0,
    resumes       |-> 0,
    cancels       |-> 0 ]

\* The cursor becomes closed: once only, it fires 'complete' and resolves
\* the pending close() promises.
RowStream_finish(s) ==
  IF s.closed THEN s
  ELSE [s EXCEPT !.closed = TRUE,
                 !.clrReg = FALSE,
                 !.complete = @ + 1,
                 !.closeResolved = @ + s.closePending,
                 !.closePending = 0]

\* Cancellation is requested from the producer: once only, the controller's
\* 'cancel' handler runs, and the callback on the canceler is removed.
RowStream_requestCancel(s) ==
  IF s.canceling THEN s
  ELSE [s EXCEPT !.canceling = TRUE, !.clrReg = FALSE, !.cancels = @ + 1]

\* The pending next() call is settled; the calls refused after it stand as
\* they are.
RowStream_resolveNext(s, res) ==
  [s EXCEPT !.waitNext = FALSE,
            !.nexts = [i \in 1..Len(s.nexts) |->
                         IF s.nexts[i] = "pending" THEN res ELSE s.nexts[i]]]

\* controller.setColumns
RowStream_setColumns(s) == [s EXCEPT !.ready = TRUE]

\* A faulty variant of controller.pushRow: rows are discarded only once the
\* cursor is closed, not from the cancellation request on.
RowStream_pushRow_late(s) ==
  LET s1 == [s EXCEPT !.pushes = @ + 1]
      id == s.pushes + 1
  IN  IF s.closed THEN [s1 EXCEPT !.dropped = @ + 1]
      ELSE IF ~s.ready THEN s
      ELSE IF s.waitNext
      THEN RowStream_resolveNext(
             [s1 EXCEPT !.row = id, !.loaded = Append(@, id)], "true")
      ELSE [s1 EXCEPT !.buf = Append(@, id),
                      !.pauses = IF Len(s.buf) + 1 = s.P THEN @ + 1 ELSE @]

\* A faulty variant of controller.pushRow: 'pause' fires on every push that
\* leaves the buffer at or above pauseCount.
RowStream_pushRow_atLeast(s) ==
  LET s1 == [s EXCEPT !.pushes = @ + 1]
      id == s.pushes + 1
  IN  IF s.canceling \/ s.closed THEN [s1 EXCEPT !.dropped = @ + 1]
      ELSE IF ~s.ready THEN s
      ELSE IF s.waitNext
      THEN RowStream_resolveNext(
             [s1 EXCEPT !.row = id, !.loaded = Append(@, id)], "true")
      ELSE [s1 EXCEPT !.buf = Append(@, id),
                      !.pauses = IF Len(s.buf) + 1 >= s.P THEN @ + 1 ELSE @]

\* controller.pushRow (pushArray and pushObject build the row and do the
\* same): discarded once cancellation was requested; refused with 'Column
\* info not yet set' before the columns; handed to the pending next(); or
\* buffered, firing 'pause' when the buffer reaches pauseCount.
RowStream_pushRow(s) ==
  LET s1 == [s EXCEPT !.pushes = @ + 1]
      id == s.pushes + 1
  IN  IF s.canceling \/ s.closed THEN [s1 EXCEPT !.dropped = @ + 1]
      ELSE IF ~s.ready THEN s
      ELSE IF s.waitNext
      THEN RowStream_resolveNext(
             [s1 EXCEPT !.row = id, !.loaded = Append(@, id)], "true")
      ELSE [s1 EXCEPT !.buf = Append(@, id),
                      !.pauses = IF Len(s.buf) + 1 = s.P THEN @ + 1 ELSE @]

\* A faulty variant of controller.end: signalling end closes the cursor at
\* once.
RowStream_end_closes(s) ==
  LET s1 == RowStream_finish([s EXCEPT !.done = TRUE])
  IN  IF s.waitNext THEN RowStream_resolveNext(s1, "false") ELSE s1

\* controller.end: a pending next() resolves false, after the cursor was
\* closed; a requested close completes; otherwise the cursor stays open for
\* the consumer to read the buffered rows.
RowStream_end(s) ==
  LET s1 == [s EXCEPT !.done = TRUE]
  IN  IF s.waitNext THEN RowStream_resolveNext(RowStream_finish(s1), "false")
      ELSE IF s.canceling THEN RowStream_finish(s1)
      ELSE s1

\* The values the producer signals as an error: null, or an Error with this
\* message.
ErrInputs == {"null", "on no"}

\* The message of the error made when the producer gives none.
DefaultError == "Underlying stream encountered an error"

\* A faulty variant of controller.error: the value is stored as given.
RowStream_error_raw(s, e) ==
  LET s0 == [s EXCEPT !.err = TRUE, !.errIn = e, !.errVal = e]
      s1 == RowStream_finish(RowStream_requestCancel(s0))
  IN  IF ~s.waitNext THEN s1
      ELSE IF s.canceling THEN RowStream_resolveNext(s1, "false")
      ELSE [RowStream_resolveNext(s1, "error") EXCEPT !.nextErr = s0.errVal]

\* controller.error: err is set (to a default error when the value is null),
\* cancellation is requested, the cursor is closed, a pending next() rejects
\* with the error (resolves false when a close had been requested before).
RowStream_error(s, e) ==
  LET s0 == [s EXCEPT !.err = TRUE,
                      !.errIn = e,
                      !.errVal = IF e = "null" THEN DefaultError ELSE e]
      s1 == RowStream_finish(RowStream_requestCancel(s0))
  IN  IF ~s.waitNext THEN s1
      ELSE IF s.canceling THEN RowStream_resolveNext(s1, "false")
      ELSE [RowStream_resolveNext(s1, "error") EXCEPT !.nextErr = s0.errVal]

\* A faulty variant of close(): the cursor is closed on the request, without
\* waiting for the producer.
RowStream_close_atOnce(s) ==
  IF s.closed THEN [s EXCEPT !.closeResolved = @ + 1]
  ELSE RowStream_finish([RowStream_requestCancel(s) EXCEPT !.closePending = @ + 1])

\* close(): nothing on a closed cursor; otherwise cancellation is requested
\* and the promise stays pending until the producer has signalled end or
\* error.
RowStream_close(s) ==
  IF s.closed THEN [s EXCEPT !.closeResolved = @ + 1]
  ELSE LET s1 == [RowStream_requestCancel(s) EXCEPT !.closePending = @ + 1]
       IN  IF s.done THEN RowStream_finish(s1) ELSE s1

\* A faulty variant of next(): a call made while another is pending takes
\* its place, and the earlier call is the one refused.
RowStream_next_replace(s) ==
  IF s.waitNext
  THEN [RowStream_resolveNext(s, "busy") EXCEPT !.waitNext = TRUE,
                                                !.nexts = Append(@, "pending")]
  ELSE IF s.closed THEN [s EXCEPT !.nexts = Append(@, "false")]
  ELSE IF s.canceling THEN [s EXCEPT !.nexts = Append(@, "pending"), !.waitNext = TRUE]
  ELSE IF s.buf # <<>>
  THEN [s EXCEPT !.row = Head(s.buf),
                 !.buf = Tail(@),
                 !.loaded = Append(@, Head(s.buf)),
                 !.resumes = IF Len(s.buf) - 1 = s.R THEN @ + 1 ELSE @,
                 !.nexts = Append(@, "true")]
  ELSE IF s.done
  THEN [RowStream_finish(s) EXCEPT !.nexts = Append(@, "false")]
  ELSE [s EXCEPT !.nexts = Append(@, "pending"), !.waitNext = TRUE]

\* A faulty variant of next(): 'resume' fires whenever the buffer is at or
\* below resumeCount after a row was taken.
RowStream_next_atMost(s) ==
  IF s.waitNext THEN [s EXCEPT !.nexts = Append(@, "busy")]
  ELSE IF s.closed THEN [s EXCEPT !.nexts = Append(@, "false")]
  ELSE IF s.canceling THEN [s EXCEPT !.nexts = Append(@, "pending"), !.waitNext = TRUE]
  ELSE IF s.buf # <<>>
  THEN [s EXCEPT !.row = Head(s.buf),
                 !.buf = Tail(@),
                 !.loaded = Append(@, Head(s.buf)),
                 !.resumes = IF Len(s.buf) - 1 <= s.R THEN @ + 1 ELSE @,
                 !.nexts = Append(@, "true")]
  ELSE IF s.done
  THEN [RowStream_finish(s) EXCEPT !.nexts = Append(@, "false")]
  ELSE [s EXCEPT !.nexts = Append(@, "pending"), !.waitNext = TRUE]

\* next(): refused while another next() is pending; false on a closed
\* cursor; after a cancellation request it waits for the cursor to close;
\* otherwise the first buffered row becomes the current row, firing
\* 'resume' when the buffer comes down to resumeCount; with an empty buffer
\* it closes the cursor and gives false if the producer has signalled end,
\* and waits if not.
RowStream_next(s) ==
  IF s.waitNext THEN [s EXCEPT !.nexts = Append(@, "busy")]
  ELSE IF s.closed THEN [s EXCEPT !.nexts = Append(@, "false")]
  ELSE IF s.canceling THEN [s EXCEPT !.nexts = Append(@, "pending"), !.waitNext = TRUE]
  ELSE IF s.buf # <<>>
  THEN [s EXCEPT !.row = Head(s.buf),
                 !.buf = Tail(@),
                 !.loaded = Append(@, Head(s.buf)),
                 !.resumes = IF Len(s.buf) - 1 = s.R THEN @ + 1 ELSE @,
                 !.nexts = Append(@, "true")]
  ELSE IF s.done
  THEN [RowStream_finish(s) EXCEPT !.nexts = Append(@, "false")]
  ELSE [s EXCEPT !.nexts = Append(@, "pending"), !.waitNext = TRUE]

\* A faulty variant of the cancellation of the owning context: the pending
\* next() rejects and the cursor is left open.
RowStream_cancel_open(s) ==
  LET s1 == RowStream_requestCancel(s)
  IN  IF s.waitNext THEN RowStream_resolveNext(s1, "canceled") ELSE s1

\* The owning context is cancelled: cancellation is requested from the
\* producer; a pending next() rejects with the cancellation error, after
\* the cursor was closed.
RowStream_cancel(s) ==
  LET s1 == RowStream_requestCancel(s)
  IN  IF s.waitNext THEN RowStream_resolveNext(RowStream_finish(s1), "canceled")
      ELSE s1

\* the producer announces the columns, once
RSetColumns ==
  /\ ~rs.ready
  /\ ~rs.done /\ ~rs.err
  /\ rs' = RowStream_setColumns(rs)
  /\ UNCHANGED <<qc, dc, tx, sr, pl, rw, em>>

\* the producer pushes a row
RPush ==
  /\ rs.pushes < MaxPush
  /\ ~rs.done /\ ~rs.err
  /\ rs' = RowStream_pushRow(rs)
  /\ UNCHANGED <<qc, dc, tx, sr, pl, rw, em>>

\* the producer signals end
REnd ==
  /\ ~rs.done /\ ~rs.err
  /\ rs' = RowStream_end(rs)
  /\ UNCHANGED <<qc, dc, tx, sr, pl, rw, em>>

\* the producer signals an error
RError ==
  /\ ~rs.done /\ ~rs.err
  /\ \E e \in ErrInputs : rs' = RowStream_error(rs, e)
  /\ UNCHANGED <<qc, dc, tx, sr, pl, rw, em>>

\* the consumer calls next()
RNext ==
  /\ Len(rs.nexts) < MaxNext
  /\ rs' = RowStream_next(rs)
  /\ UNCHANGED <<qc, dc, tx, sr, pl, rw, em>>

\* the consumer calls close()
RClose ==
  /\ rs.closePending + rs.closeResolved < MaxRowsClose
  /\ rs' = RowStream_close(rs)
  /\ UNCHANGED <<qc, dc, tx, sr, pl, rw, em>>

\* the owning context is cancelled
RCancel ==
  /\ rs.clrReg
  /\ rs' = RowStream_cancel(rs)
  /\ UNCHANGED <<qc, dc, tx, sr, pl, rw, em>>

(***************************************************************************)
(* SqliteRows (src/unnamed/part_008, lines 1-150), the cursor of the sqlite *)
(* driver. Its #waitNext and #waitClose are never assigned, so they stay   *)
(* null, and its buffer is never written.                                  *)
(*   nexts     the number of next() calls, lastNext what the latest gave   *)
(*   closes, ends, pushes  the number of close(), end() and pushRow()      *)
(*             calls                                                       *)
(*   complete  the number of times 'complete' was emitted                  *)
(*   it        where the cursor's async iterator stands: "none" (not       *)
(*             started), "next" (awaiting its next() call), "closing"      *)
(*             (awaiting close() in its finally block), "left"             *)
(*   itRes     what the iterator's own next() call gave                    *)
(*   itExit    how the iteration ended: "exhausted", or "threw" when the   *)
(*             row getter threw                                            *)
(***************************************************************************)

SqliteRows_new(hasClr) ==
  [ hasClr    |-> hasClr,
    ready     |-> FALSE,
    done      |-> FALSE,
    canceling |-> FALSE,
    canceled  |-> FALSE,
    nexts     |-> 0,
    lastNext  |-> "none",
    closes    |-> 0,
    ends      |-> 0,
    pushes    |-> 0,
    complete  |-> 0,
    it        |-> "none",
    itRes     |-> "none",
    itExit    |-> "none" ]

\* #cancel
SqliteRows_cancel(s) == [s EXCEPT !.canceling = TRUE, !.canceled = TRUE]

\* #pushRow: with #waitNext null only #onFields has an effect.
SqliteRows_pushRow(s) ==
  IF s.canceling THEN [s EXCEPT !.pushes = @ + 1]
  ELSE [s EXCEPT !.pushes = @ + 1, !.ready = TRUE]

\* #end: with #waitNext and #waitClose null, done is set and 'complete' is
\* emitted.
SqliteRows_end(s) == [s EXCEPT !.done = TRUE, !.complete = @ + 1]

\* close()
SqliteRows_close(s) == [SqliteRows_end(s) EXCEPT !.closes = @ + 1]

\* next()
SqliteRows_next(s) ==
  [s EXCEPT !.nexts = @ + 1, !.lastNext = IF s.done THEN "false" ELSE "true"]

\* [Symbol.asyncIterator], up to its first await: next() is called.
SqliteRows_iterNext(s) ==
  LET s1 == SqliteRows_next(s)
  IN  [s1 EXCEPT !.it = "next", !.itRes = s1.lastNext]

\* The iterator after 'await this.next()'. On true it reads this.row:
\* #row is written only for a pending next() (#waitNext), which there never
\* is, so the getter throws 'No row loaded'. On false the loop ends. Either
\* way the finally block calls close().
SqliteRows_iterResume(s) ==
  [SqliteRows_close(s) EXCEPT
     !.it = "closing",
     !.itExit = IF s.itRes = "true" THEN "threw" ELSE "exhausted"]

\* The iterator after 'await this.close()': control leaves the iteration.
SqliteRows_iterLeave(s) == [s EXCEPT !.it = "left"]

\* The iterator is between two of its awaits: what it awaits is settled
\* already, so it goes on before any callback of the driver runs.
SqliteRows_iterRunning(s) == s.it \in {"next", "closing"}

\* the producer pushes a row
SPush ==
  /\ sr.pushes < MaxPush
  /\ sr.ends = 0
  /\ ~SqliteRows_iterRunning(sr)
  /\ sr' = SqliteRows_pushRow(sr)
  /\ UNCHANGED <<qc, dc, tx, rs, pl, rw, em>>

\* the producer signals end, once
SEnd ==
  /\ sr.ends = 0
  /\ ~SqliteRows_iterRunning(sr)
  /\ sr' = [SqliteRows_end(sr) EXCEPT !.ends = @ + 1]
  /\ UNCHANGED <<qc, dc, tx, rs, pl, rw, em>>

\* the consumer calls close()
SClose ==
  /\ sr.closes < MaxRowsClose
  /\ sr' = SqliteRows_close(sr)
  /\ UNCHANGED <<qc, dc, tx, rs, pl, rw, em>>

\* the consumer calls next()
SNext ==
  /\ sr.nexts < MaxNext
  /\ sr' = SqliteRows_next(sr)
  /\ UNCHANGED <<qc, dc, tx, rs, pl, rw, em>>

\* the context whose canceler the cursor was created with is cancelled
SCancel ==
  /\ sr.hasClr
  /\ ~sr.canceled
  /\ sr' = SqliteRows_cancel(sr)
  /\ UNCHANGED <<qc, dc, tx, rs, pl, rw, em>>

(***************************************************************************)
(* DbPoolBase (src/unnamed/part_001): one call made on the pool, and the   *)
(* QueueConn (qc) that #conn wraps the driver connection in.               *)
(*   kind      the call: "conn", or "exec", "queryRow", "query",           *)
(*             "beginTxn" made directly on the pool                        *)
(*   phase     "get": awaiting pool.get; "got": #conn has returned and the *)
(*             call awaits it; "called": the operation was called on the   *)
(*             QueueConn, or (conn) the QueueConn was handed to the        *)
(*             caller; "failed": pool.get or the operation threw           *)
(*   res       the state of the promise the call returned                  *)
(*   op        the number of the operation on the QueueConn, 0 when none   *)
(*   acquired  the number of driver connections got from the AsyncPool     *)
(*   released  the number of pool.release calls                            *)
(*   live      the QueueConn is in #live                                   *)
(*   closed    close() was called on the pool                              *)
(***************************************************************************)

PoolCalls == {"conn"} \cup OpTypes

DbPoolBase_new(kind) ==
  [ kind     |-> kind,
    phase    |-> "get",
    res      |-> "pending",
    op       |-> 0,
    acquired |-> 0,
    released |-> 0,
    live     |-> FALSE,
    closed   |-> FALSE ]

\* A faulty variant of what follows a run of the QueueConn: the driver
\* connection is released as soon as the promise of the pool's operation
\* has settled.
DbPoolBase_after_early(p, q, q2) ==
  IF p.phase = "called" /\ p.op # 0 /\ p.res = "pending" /\ q2.ph[p.op] # "pending"
  THEN [p EXCEPT !.res = IF q2.ph[p.op] = "resolved" THEN "resolved" ELSE "rejected",
                 !.live = FALSE,
                 !.released = @ + 1]
  ELSE p

\* What a run of the QueueConn, from state q to state q2, does to the pool:
\* the 'complete' callback of #conn runs for every 'complete' emitted
\* (delete live[id]; pool.release(driverCon)), and the promise the pool's
\* call returned follows the promise of the operation on the QueueConn.
DbPoolBase_after(p, q, q2) ==
  LET n  == q2.complete - q.complete
      p1 == IF n > 0 THEN [p EXCEPT !.live = FALSE, !.released = @ + n] ELSE p
  IN  IF p1.phase = "called" /\ p1.op # 0 /\ p1.res = "pending" /\ q2.ph[p1.op] # "pending"
      THEN [p1 EXCEPT !.res = IF q2.ph[p1.op] = "resolved" THEN "resolved" ELSE "rejected"]
      ELSE p1

\* #conn after 'await this.#pool.get(ctx)': the driver connection is
\* wrapped, entered in #live and given the 'complete' callback. conn()
\* returns this promise itself; the other calls await it.
DbPoolBase__conn(p) ==
  [p EXCEPT !.acquired = @ + 1,
            !.live = TRUE,
            !.phase = IF p.kind = "conn" THEN "called" ELSE "got",
            !.res = IF p.kind = "conn" THEN "resolved" ELSE "pending"]

\* pool.get rejects, or the operation throws: the call's promise rejects.
DbPoolBase_fail(p) == [p EXCEPT !.phase = "failed", !.res = "rejected"]

\* pool.get resolves with a driver connection (a closed pool gives none)
PGet ==
  /\ pl.phase = "get"
  /\ ~pl.closed
  /\ pl' = DbPoolBase__conn(pl)
  /\ qc' = QueueConn_new(pl.kind = "conn")
  /\ UNCHANGED <<dc, tx, rs, sr, rw, em>>

\* pool.get rejects
PGetFails ==
  /\ pl.phase = "get"
  /\ pl' = DbPoolBase_fail(pl)
  /\ UNCHANGED <<qc, dc, tx, rs, sr, rw, em>>

\* exec, queryRow, query, beginTxn on the pool after 'await this.#conn':
\* the operation is called on the QueueConn.
PCall ==
  /\ pl.phase = "got"
  /\ IF QueueConn_checkStatus(qc)
     THEN /\ qc' = QueueConn_enqueue(qc, pl.kind)
          /\ pl' = DbPoolBase_after([pl EXCEPT !.phase = "called",
                                               !.op = Len(qc.ph) + 1], qc, qc')
     ELSE /\ qc' = qc
          /\ pl' = DbPoolBase_fail(pl)
  /\ UNCHANGED <<dc, tx, rs, sr, rw, em>>

\* close() on the pool: every live QueueConn is closed
PPoolClose ==
  /\ ~pl.closed
  /\ qc' = IF pl.live THEN QueueConn_close(qc).s ELSE qc
  /\ pl' = DbPoolBase_after([pl EXCEPT !.closed = TRUE], qc, qc')
  /\ UNCHANGED <<dc, tx, rs, sr, rw, em>>

\* The caller of conn() holds the QueueConn.
PoolConnHeld == pl.kind = "conn" /\ pl.phase = "called"

\* exec, queryRow, query, beginTxn on the connection conn() gave
PSubmit ==
  /\ PoolConnHeld
  /\ Len(qc.ph) + qc.refused < MaxOps
  /\ \E type \in OpTypes :
       qc' = IF QueueConn_checkStatus(qc)
             THEN QueueConn_enqueue(qc, type)
             ELSE [qc EXCEPT !.refused = @ + 1]
  /\ pl' = DbPoolBase_after(pl, qc, qc')
  /\ UNCHANGED <<dc, tx, rs, sr, rw, em>>

\* close() on the connection conn() gave
PConnClose ==
  /\ PoolConnHeld
  /\ Len(qc.closeRet) < MaxClose
  /\ LET r == QueueConn_close(qc)
     IN  qc' = [r.s EXCEPT !.closeRet =
                  Append(@, [ret |-> r.ret, pending |-> qc.waitClose])]
  /\ pl' = DbPoolBase_after(pl, qc, qc')
  /\ UNCHANGED <<dc, tx, rs, sr, rw, em>>

\* the driver call of an operation settles
PDriverSettles ==
  /\ pl.acquired > 0
  /\ qc.handlers = <<>>
  /\ \E nextOp \in qc.drv, out \in Outcomes : qc' = QueueConn_settled(qc, nextOp, out)
  /\ pl' = DbPoolBase_after(pl, qc, qc')
  /\ UNCHANGED <<dc, tx, rs, sr, rw, em>>

\* setTimeout(() => this.#next(), 0) fires
PTimer ==
  /\ pl.acquired > 0
  /\ qc.handlers = <<>>
  /\ qc.timers > 0
  /\ qc' = QueueConn_next([qc EXCEPT !.timers = @ - 1])
  /\ pl' = DbPoolBase_after(pl, qc, qc')
  /\ UNCHANGED <<dc, tx, rs, sr, rw, em>>

\* a cursor or a transaction emits 'complete'
PComplete ==
  /\ pl.acquired > 0
  /\ \E op \in qc.open : qc' = QueueConn_next([qc EXCEPT !.open = @ \ {op}])
  /\ pl' = DbPoolBase_after(pl, qc, qc')
  /\ UNCHANGED <<dc, tx, rs, sr, rw, em>>

\* the context of an operation whose promise is pending is cancelled
PCancelCtx ==
  /\ pl.acquired > 0
  /\ qc.cancels < MaxCancel
  /\ \E i \in 1..Len(qc.ph) :
       /\ qc.ph[i] = "pending"
       /\ qc' = [QueueConn_reject(qc, i, TRUE) EXCEPT !.cancels = @ + 1]
  /\ pl' = DbPoolBase_after(pl, qc, qc')
  /\ UNCHANGED <<dc, tx, rs, sr, rw, em>>

\* the catch handler of a promise rejected with a cancellation error runs
PCatch ==
  /\ pl.acquired > 0
  /\ qc.handlers # <<>>
  /\ qc' = QueueConn_onRejected([qc EXCEPT !.handlers = Tail(@)], Head(qc.handlers))
  /\ pl' = DbPoolBase_after(pl, qc, qc')
  /\ UNCHANGED <<dc, tx, rs, sr, rw, em>>

(***************************************************************************)
(* Row (src/unnamed/part_005): the proxies Row.fromObject and              *)
(* Row.fromArray make over a plain object or an array and a list of column *)
(* names.                                                                  *)
(*                                                                         *)
(* A property key is a string; the ordinal i is the key String(i). A value *)
(* is a number, Undefined standing for undefined. An object is a function  *)
(* from its own keys to values (the names taken here are not members of    *)
(* Object.prototype); an array is a sequence, element i of the array being *)
(* element i + 1 of the sequence.                                          *)
(*   kind      "object" or "array": how the row was made                   *)
(*   obj, arr  the data, cols the declared column names                    *)
(*   hasA, outA  Row.toArray was called, and what it returned              *)
(*   hasO, outO  Row.toObject was called, and what it returned             *)
(*   getKey, getVal  the key last read from the row, and the value read    *)
(***************************************************************************)

\* The longest list of declared columns.
MaxCols == 2

Undefined == 0 - 1

\* Column names, the name of a field that is not a column, and values.
ColNames == {"id", "name", "length"}
ExtraNames == {"extra"}
Vals == {10, 20}

\* String(i) for an ordinal i.
OrdKey(i) == CASE i = 0 -> "0" [] i = 1 -> "1" [] i = 2 -> "2" [] OTHER -> "none"

\* +p: the number a key converts to, NaN for the names taken here.
NaN == 0 - 2
ToNumber(p) == CASE p = "0" -> 0 [] p = "1" -> 1 [] p = "2" -> 2 [] OTHER -> NaN

\* data[p] on an object
ObjGet(data, p) == IF p \in DOMAIN data THEN data[p] ELSE Undefined

\* data[ix] on an array, ix being a number or undefined
ArrGet(data, ix) == IF ix >= 0 /\ ix < Len(data) THEN data[ix + 1] ELSE Undefined

\* 'p in target' on an array: its indices and length (the other members of
\* Array.prototype are not among the names taken here).
ArrHas(data, p) == p = "length" \/ (ToNumber(p) >= 0 /\ ToNumber(p) < Len(data))

\* target[p] on an array, for a key it has
ArrProp(data, p) == IF p = "length" THEN Len(data) ELSE ArrGet(data, ToNumber(p))

objToArray(data, cols) == [i \in 1..Len(cols) |-> ObjGet(data, cols[i])]

cloneObject(data, cols) == [c \in Range(cols) |-> ObjGet(data, c)]

\* colMap[p] in fromArray, and the index arrayToObj last assigns a name
\* from: the last position of the name among the columns, undefined when
\* it is not a column.
ColIndex(cols, p) ==
  IF p \in Range(cols)
  THEN (CHOOSE i \in 1..Len(cols) :
          cols[i] = p /\ \A j \in (i + 1)..Len(cols) : cols[j] # p) - 1
  ELSE Undefined

arrayToObj(data, cols) == [c \in Range(cols) |-> ArrGet(data, ColIndex(cols, c))]

\* data.slice(0, cols.length)
ArrSlice(data, n) == SubSeq(data, 1, IF n < Len(data) THEN n ELSE Len(data))

\* The get trap of the proxy Row.fromObject makes, for a string key.
Row_fromObject_get(data, cols, p) ==
  IF p \in DOMAIN data THEN data[p]
  ELSE IF ToNumber(p) = NaN THEN Undefined
  ELSE IF ToNumber(p) < Len(cols) THEN ObjGet(data, cols[ToNumber(p) + 1])
  ELSE Undefined

\* The get trap of the proxy Row.fromArray makes, for a string key.
Row_fromArray_get(data, cols, p) ==
  IF ArrHas(data, p) THEN ArrProp(data, p)
  ELSE ArrGet(data, ColIndex(cols, p))

\* Row.fromObject(data, cols), Row.fromArray(data, cols)
Row_new(kind, obj, arr, cols) ==
  [ kind   |-> kind,
    obj    |-> obj,
    arr    |-> arr,
    cols   |-> cols,
    hasA   |-> FALSE,
    outA   |-> <<>>,
    hasO   |-> FALSE,
    outO   |-> <<>>,
    getKey |-> "none",
    getVal |-> Undefined ]

\* No row.
Row_none == Row_new("none", <<>>, <<>>, <<>>)

\* Row.toArray(row)
Row_toArray(r) ==
  IF r.kind = "object" THEN objToArray(r.obj, r.cols) ELSE ArrSlice(r.arr, Len(r.cols))

\* Row.toObject(row)
Row_toObject(r) ==
  IF r.kind = "object" THEN cloneObject(r.obj, r.cols) ELSE arrayToObj(r.arr, r.cols)

\* row[p]
Row_get(r, p) ==
  IF r.kind = "object" THEN Row_fromObject_get(r.obj, r.cols, p)
  ELSE Row_fromArray_get(r.arr, r.cols, p)

\* The lists of distinct column names, the objects holding every declared
\* column and possibly a field more, the arrays holding an element for
\* every declared column and possibly one more.
ColLists ==
  { c \in UNION {[1..n -> ColNames] : n \in 1..MaxCols} :
      \A i, j \in 1..Len(c) : i # j => c[i] # c[j] }

ObjectsFor(cols) ==
  UNION {[Range(cols) \cup e -> Vals] : e \in SUBSET ExtraNames}

ArraysFor(cols) ==
  UNION {[1..n -> Vals] : n \in Len(cols)..(Len(cols) + 1)}

\* Row.toArray(row)
WToArray ==
  /\ ~rw.hasA
  /\ rw' = [rw EXCEPT !.hasA = TRUE, !.outA = Row_toArray(rw)]
  /\ UNCHANGED <<qc, dc, tx, rs, sr, pl, em>>

\* Row.toObject(row)
WToObject ==
  /\ ~rw.hasO
  /\ rw' = [rw EXCEPT !.hasO = TRUE, !.outO = Row_toObject(rw)]
  /\ UNCHANGED <<qc, dc, tx, rs, sr, pl, em>>

\* row[i] for the ordinal of a declared column
WGetOrdinal ==
  /\ \E i \in 0..(Len(rw.cols) - 1) :
       rw' = [rw EXCEPT !.getKey = OrdKey(i), !.getVal = Row_get(rw, OrdKey(i))]
  /\ UNCHANGED <<qc, dc, tx, rs, sr, pl, em>>

\* row[name] for the name of a declared column
WGetName ==
  /\ \E c \in Range(rw.cols) :
       rw' = [rw EXCEPT !.getKey = c, !.getVal = Row_get(rw, c)]
  /\ UNCHANGED <<qc, dc, tx, rs, sr, pl, em>>

(***************************************************************************)
(* AsyncEventEmitter, for one event type                                   *)
(*                                                                         *)
(* cbs    #callbacks[type]: the registrations not yet run, by number       *)
(* reg    every registration made: what its callback returns (ret), its    *)
(*        options (concurrent, coe for continueOnError), whether the       *)
(*        callback registers another callback when it runs (registers),    *)
(*        how many calls of emit had been made when it was registered      *)
(*        (at), and the call of emit inside which it was registered (by,   *)
(*        0 for a registration from outside)                               *)
(* prom   per registration, the promise emit got for its callback:         *)
(*        "none", "pending", "fulfilled", "rejected"                       *)
(* runs   the callbacks invoked, in order, each with the call of emit      *)
(*        that invoked it                                                  *)
(* emits  per call of emit: st is "running", "await" (on the promise of    *)
(*        callback on), "awaitAll" (Promise.all of promises), "resolved"   *)
(*        or "rejected"; promises are the callbacks pushed on its list     *)
(***************************************************************************)

\* What a callback returns: a promise, an object that is no promise, or
\* undefined.
Returns == {"promise", "object", "undefined"}

\* The callbacks registered, one for each behaviour emit can show: with
\* continueOnError emit gets the promise of runAndIgnore whatever the
\* callback returns (undefined stands for all), and without a promise the
\* concurrent option is never looked at (it is left unset).
CallbackKinds ==
  {kind \in [ret : Returns, concurrent : BOOLEAN, coe : BOOLEAN, registers : BOOLEAN] :
     /\ kind.coe => kind.ret = "undefined"
     /\ (~kind.coe /\ kind.ret # "promise") => ~kind.concurrent}

\* The callback a running callback registers: it returns a plain object and
\* has no options.
ChildKind ==
  [ret |-> "object", concurrent |-> FALSE, coe |-> FALSE, registers |-> FALSE]

AsyncEventEmitter_new ==
  [ cbs   |-> <<>>,
    reg   |-> <<>>,
    prom  |-> <<>>,
    runs  |-> <<>>,
    emits |-> <<>>,
    noffs |-> 0 ]

\* on(type, fn, opts), called from inside the call by of emit (0: from
\* outside)
AsyncEventEmitter_on(e, kind, by) ==
  [e EXCEPT !.cbs  = Append(@, Len(e.reg) + 1),
            !.reg  = Append(@, [ret        |-> kind.ret,
                                concurrent |-> kind.concurrent,
                                coe        |-> kind.coe,
                                registers  |-> kind.registers,
                                at         |-> Len(e.emits),
                                by         |-> by]),
            !.prom = Append(@, "none")]

\* off(type) for cb = 0, off(type, fn) for the callback of registration cb
AsyncEventEmitter_off(e, cb) ==
  [e EXCEPT !.cbs = IF cb = 0 THEN <<>> ELSE SelectSeq(@, LAMBDA c : c # cb),
            !.noffs = @ + 1]

\* isPromise(result): 'then' in val. The in operator throws a TypeError for
\* undefined; a plain object has no 'then'.
isPromise(ret) ==
  CASE ret = "promise"   -> "true"
    [] ret = "object"    -> "false"
    [] ret = "undefined" -> "throws"

\* emit after its loop: await Promise.all(promises) if there are any
AsyncEventEmitter_afterLoop(e, k) ==
  LET ps == e.emits[k].promises
  IN  IF ps = {} THEN [e EXCEPT !.emits[k].st = "resolved"]
      ELSE IF \E c \in ps : e.prom[c] = "rejected"
      THEN [e EXCEPT !.emits[k].st = "rejected"]
      ELSE IF \A c \in ps : e.prom[c] = "fulfilled"
      THEN [e EXCEPT !.emits[k].st = "resolved"]
      ELSE [e EXCEPT !.emits[k].st = "awaitAll"]

\* A faulty variant of the loop of emit: the promises of concurrent
\* callbacks are not pushed on the list Promise.all waits for.
RECURSIVE AsyncEventEmitter_loop_noAll(_, _)
AsyncEventEmitter_loop_noAll(e, k) ==
  IF e.cbs = <<>> THEN AsyncEventEmitter_afterLoop(e, k)
  ELSE
    LET cb == Head(e.cbs)
        r  == e.reg[cb]
        e1 == [e EXCEPT !.cbs = Tail(@),
                        !.runs = Append(@, [cb |-> cb, emit |-> k])]
        e2 == IF r.registers THEN AsyncEventEmitter_on(e1, ChildKind, k) ELSE e1
        p  == IF r.coe THEN "true" ELSE isPromise(r.ret)
    IN  IF p = "throws" THEN [e2 EXCEPT !.emits[k].st = "rejected"]
        ELSE IF p = "false" THEN AsyncEventEmitter_loop_noAll(e2, k)
        ELSE IF r.concurrent
        THEN AsyncEventEmitter_loop_noAll([e2 EXCEPT !.prom[cb] = "pending"], k)
        ELSE [e2 EXCEPT !.prom[cb] = "pending",
                        !.emits[k].st = "await",
                        !.emits[k].on = cb]

\* The loop of emit, from where the call k of emit stands to its next await,
\* its end or its exception: the head of the array is shifted off and its
\* callback called (through runAndIgnore, which always returns a promise,
\* if continueOnError is set); a promise is pushed on the list if the
\* callback is concurrent and awaited otherwise.
RECURSIVE AsyncEventEmitter_loop(_, _)
AsyncEventEmitter_loop(e, k) ==
  IF e.cbs = <<>> THEN AsyncEventEmitter_afterLoop(e, k)
  ELSE
    LET cb == Head(e.cbs)
        r  == e.reg[cb]
        e1 == [e EXCEPT !.cbs = Tail(@),
                        !.runs = Append(@, [cb |-> cb, emit |-> k])]
        e2 == IF r.registers THEN AsyncEventEmitter_on(e1, ChildKind, k) ELSE e1
        p  == IF r.coe THEN "true" ELSE isPromise(r.ret)
    IN  IF p = "throws" THEN [e2 EXCEPT !.emits[k].st = "rejected"]
        ELSE IF p = "false" THEN AsyncEventEmitter_loop(e2, k)
        ELSE IF r.concurrent
        THEN AsyncEventEmitter_loop(
               [e2 EXCEPT !.prom[cb] = "pending",
                          !.emits[k].promises = @ \cup {cb}], k)
        ELSE [e2 EXCEPT !.prom[cb] = "pending",
                        !.emits[k].st = "await",
                        !.emits[k].on = cb]

\* emit(type, thisArg, args) up to its first await
AsyncEventEmitter_emit(e) ==
  LET k == Len(e.emits) + 1
  IN  IF e.cbs = <<>>
      THEN [e EXCEPT !.emits = Append(@, [st |-> "resolved", on |-> 0, promises |-> {}])]
      ELSE AsyncEventEmitter_loop(
             [e EXCEPT !.emits = Append(@, [st |-> "running", on |-> 0, promises |-> {}])],
             k)

\* The promise emit got for callback cb settles, and the call of emit that
\* waits for it goes on.
AsyncEventEmitter_settled(e, cb, out) ==
  LET e1 == [e EXCEPT !.prom[cb] = out]
      ks == {k \in 1..Len(e.emits) : e.emits[k].st = "await" /\ e.emits[k].on = cb}
      as == {k \in 1..Len(e.emits) :
               e.emits[k].st = "awaitAll" /\ cb \in e.emits[k].promises}
  IN  IF ks # {}
      THEN LET k == CHOOSE k \in ks : TRUE
           IN  IF out = "fulfilled"
               THEN AsyncEventEmitter_loop(
                      [e1 EXCEPT !.emits[k].st = "running", !.emits[k].on = 0], k)
               ELSE [e1 EXCEPT !.emits[k].st = "rejected", !.emits[k].on = 0]
      ELSE IF as # {}
      THEN AsyncEventEmitter_afterLoop(e1, CHOOSE k \in as : TRUE)
      ELSE e1

\* on(type, fn, opts), called from outside
EOn ==
  /\ Cardinality({c \in 1..Len(em.reg) : em.reg[c].by = 0}) < MaxCbs
  /\ \E kind \in CallbackKinds :
       /\ kind.registers =>
            Cardinality({c \in 1..Len(em.reg) : em.reg[c].registers}) < MaxChild
       /\ em' = AsyncEventEmitter_on(em, kind, 0)
  /\ UNCHANGED <<qc, dc, tx, rs, sr, pl, rw>>

\* off(type), off(type, fn)
EOff ==
  /\ em.noffs < MaxOff
  /\ \E cb \in {0} \cup Range(em.cbs) : em' = AsyncEventEmitter_off(em, cb)
  /\ UNCHANGED <<qc, dc, tx, rs, sr, pl, rw>>

\* emit(type)
EEmit ==
  /\ Len(em.emits) < MaxEmits
  /\ em' = AsyncEventEmitter_emit(em)
  /\ UNCHANGED <<qc, dc, tx, rs, sr, pl, rw>>

\* the promise emit got for a callback settles; the promise of runAndIgnore
\* never rejects
ESettle ==
  /\ \E cb \in 1..Len(em.prom) :
       /\ em.prom[cb] = "pending"
       /\ \E out \in IF em.reg[cb].coe THEN {"fulfilled"}
                                       ELSE {"fulfilled", "rejected"} :
            em' = AsyncEventEmitter_settled(em, cb, out)
  /\ UNCHANGED <<qc, dc, tx, rs, sr, pl, rw>>

(***************************************************************************)
(* DbTxnBase (tx) with a DbConnBase (dc) as the connection given to its    *)
(* constructor. The transaction has no options, so start() executes START  *)
(* TRANSACTION alone; start() is called once and is the first call on the  *)
(* connection, so its statement is operation 1. Of tx the fields closed,   *)
(* started, complete, startPhase, starts, nfin, finRes, finCall, ncalls    *)
(* and callRes are used. The constructor's callback on the connection's    *)
(* 'complete' is removed by the emit that runs it (AsyncEventEmitter.emit  *)
(* shifts the callbacks it runs), so it bubbles the first 'complete' only. *)
(***************************************************************************)

\* What a run of the connection, from state d to state d2, does to the
\* transaction: the constructor's callback re-emits the connection's first
\* 'complete'.
DbTxnBase_bubble(t, d, d2) ==
  IF d.complete = 0 /\ d2.complete > 0 THEN [t EXCEPT !.complete = @ + 1] ELSE t

\* start() up to its await: con.exec(ctx, 'START TRANSACTION')
XStart ==
  /\ tx.starts = <<>>
  /\ dc.ph = <<>>
  /\ DbConnBase_checkStatus(dc)
  /\ dc' = DbConnBase_enqueue(dc, "exec", "other")
  /\ tx' = DbTxnBase_bubble([tx EXCEPT !.starts = <<"pending">>,
                                       !.startPhase = "begin"], dc, dc')
  /\ UNCHANGED <<qc, rs, sr, pl, rw, em>>

\* a driver call of the connection settles; when it is the statement of
\* start(), start() goes on: started is set, or the catch block calls
\* con.close()
XDriverSettles ==
  /\ \E nextOp \in dc.drv, out \in {"ok", "err"} :
       LET d1 == DbConnBase_settled(dc, nextOp, out)
       IN  IF nextOp.id = 1 /\ tx.startPhase = "begin"
           THEN IF out = "ok"
                THEN /\ dc' = d1
                     /\ tx' = DbTxnBase_bubble(
                                [tx EXCEPT !.started = TRUE,
                                           !.startPhase = "idle",
                                           !.starts = <<"resolved">>], dc, dc')
                ELSE /\ dc' = DbConnBase_close(d1).s
                     /\ tx' = DbTxnBase_bubble(
                                [tx EXCEPT !.startPhase = "closing"], dc, dc')
           ELSE /\ dc' = d1
                /\ tx' = DbTxnBase_bubble(tx, dc, dc')
  /\ UNCHANGED <<qc, rs, sr, pl, rw, em>>

\* setTimeout(() => this.#next(), 0) of the connection fires
XTimer ==
  /\ dc.timers > 0
  /\ dc' = DbConnBase_next([dc EXCEPT !.timers = @ - 1])
  /\ tx' = DbTxnBase_bubble(tx, dc, dc')
  /\ UNCHANGED <<qc, rs, sr, pl, rw, em>>

\* the cursor of a query made through the transaction emits 'complete'
XCursorComplete ==
  /\ \E op \in dc.open : dc' = DbConnBase_onComplete(dc, op)
  /\ tx' = DbTxnBase_bubble(tx, dc, dc')
  /\ UNCHANGED <<qc, rs, sr, pl, rw, em>>

\* exec, queryRow, query on the transaction
XOp ==
  /\ tx.ncalls < MaxTxOps
  /\ \E op \in TxOps :
       LET st == DbTxnBase_checkStatus(tx)
       IN  IF st # "ok"
           THEN /\ dc' = dc
                /\ tx' = [tx EXCEPT !.ncalls = @ + 1, !.callRes = st]
           ELSE IF DbConnBase_checkStatus(dc)
           THEN /\ dc' = DbConnBase_enqueue(dc, op, "other")
                /\ tx' = DbTxnBase_bubble(
                           [tx EXCEPT !.ncalls = @ + 1, !.callRes = "sent"], dc, dc')
           ELSE /\ dc' = dc
                /\ tx' = [tx EXCEPT !.ncalls = @ + 1, !.callRes = "connClosed"]
  /\ UNCHANGED <<qc, rs, sr, pl, rw, em>>

\* commit(), rollback() on the transaction, up to their await: the
\* statement is given to the connection, then con.close() is called
XFinish ==
  /\ tx.nfin < MaxFin
  /\ \E call \in {"commit", "rollback"} :
       LET st == DbTxnBase_checkStatus(tx)
       IN  IF st # "ok"
           THEN /\ dc' = dc
                /\ tx' = [tx EXCEPT !.nfin = @ + 1, !.finRes = st]
           ELSE /\ dc' = DbConnBase_close(
                           IF DbConnBase_checkStatus(dc)
                           THEN DbConnBase_enqueue(dc, "exec", "other")
                           ELSE dc).s
                /\ tx' = DbTxnBase_bubble(
                           [tx EXCEPT !.closed = TRUE,
                                      !.nfin = @ + 1,
                                      !.finRes = "accepted",
                                      !.finCall = call], dc, dc')
  /\ UNCHANGED <<qc, rs, sr, pl, rw, em>>

(***************************************************************************)
(* Specifications: each component taken alone.                             *)
(***************************************************************************)

InitQ ==
  /\ qc \in {QueueConn_new(k) : k \in BOOLEAN}
  /\ dc = DbConnBase_new(TRUE, FALSE)
  /\ tx = DbTxnBase_new("none", "none")
  /\ rs = RowStream_new(1, 1, FALSE)
  /\ sr = SqliteRows_new(FALSE)
  /\ pl = DbPoolBase_new("conn")
  /\ rw = Row_none
  /\ em = AsyncEventEmitter_new

NextQ ==
  \/ QSubmit
  \/ QClose
  \/ QDriverSettles
  \/ QTimer
  \/ QComplete
  \/ QCancelCtx
  \/ QCatch

SpecQ == InitQ /\ [][NextQ]_vars

\* What the event loop and the driver guarantee: a queued microtask runs, a
\* timer fires, a driver call settles, a cursor or a transaction that was
\* opened emits 'complete'. Calls from outside are under no obligation.
SpecQLive ==
  /\ SpecQ
  /\ WF_vars(QCatch)
  /\ WF_vars(QTimer)
  /\ WF_vars(QDriverSettles)
  /\ WF_vars(QComplete)

InitD ==
  /\ dc \in {DbConnBase_new(k, c) : k \in BOOLEAN, c \in BOOLEAN}
  /\ qc = QueueConn_new(TRUE)
  /\ tx = DbTxnBase_new("none", "none")
  /\ rs = RowStream_new(1, 1, FALSE)
  /\ sr = SqliteRows_new(FALSE)
  /\ pl = DbPoolBase_new("conn")
  /\ rw = Row_none
  /\ em = AsyncEventEmitter_new

NextD ==
  \/ DSubmit
  \/ DClose
  \/ DDriverSettles
  \/ DTimer
  \/ DComplete
  \/ DCancelRoot

SpecD == InitD /\ [][NextD]_vars

InitT ==
  /\ tx \in {DbTxnBase_new(l, r) : l \in Levels, r \in ReadOnlyModes}
  /\ qc = QueueConn_new(TRUE)
  /\ dc = DbConnBase_new(TRUE, FALSE)
  /\ rs = RowStream_new(1, 1, FALSE)
  /\ sr = SqliteRows_new(FALSE)
  /\ pl = DbPoolBase_new("conn")
  /\ rw = Row_none
  /\ em = AsyncEventEmitter_new

NextT ==
  \/ TStart
  \/ TStartStmtSettles
  \/ TStartThrows
  \/ TOp
  \/ TFinish
  \/ TFinStmtSettles
  \/ TInnerComplete

SpecT == InitT /\ [][NextT]_vars

\* The options a cursor is created with: <<pauseCount, resumeCount>>.
Thresholds == {pr \in (1..MaxPause) \X (1..MaxPause) : pr[2] <= pr[1]}

InitR ==
  /\ rs \in {RowStream_new(pr[1], pr[2], c) : pr \in Thresholds, c \in BOOLEAN}
  /\ sr = SqliteRows_new(FALSE)
  /\ qc = QueueConn_new(TRUE)
  /\ dc = DbConnBase_new(TRUE, FALSE)
  /\ tx = DbTxnBase_new("none", "none")
  /\ pl = DbPoolBase_new("conn")
  /\ rw = Row_none
  /\ em = AsyncEventEmitter_new

NextR ==
  \/ RSetColumns
  \/ RPush
  \/ REnd
  \/ RError
  \/ RNext
  \/ RClose
  \/ RCancel

SpecR == InitR /\ [][NextR]_vars

InitS ==
  /\ sr \in {SqliteRows_new(c) : c \in BOOLEAN}
  /\ rs = RowStream_new(1, 1, FALSE)
  /\ qc = QueueConn_new(TRUE)
  /\ dc = DbConnBase_new(TRUE, FALSE)
  /\ tx = DbTxnBase_new("none", "none")
  /\ pl = DbPoolBase_new("conn")
  /\ rw = Row_none
  /\ em = AsyncEventEmitter_new

\* the consumer starts 'for await (const row of rows)'
SIterNext ==
  /\ sr.it = "none"
  /\ sr' = SqliteRows_iterNext(sr)
  /\ UNCHANGED <<qc, dc, tx, rs, pl, rw, em>>

\* the iterator's next() has resolved
SIterResume ==
  /\ sr.it = "next"
  /\ sr' = SqliteRows_iterResume(sr)
  /\ UNCHANGED <<qc, dc, tx, rs, pl, rw, em>>

\* the iterator's close() has resolved
SIterLeave ==
  /\ sr.it = "closing"
  /\ sr' = SqliteRows_iterLeave(sr)
  /\ UNCHANGED <<qc, dc, tx, rs, pl, rw, em>>

NextS ==
  \/ SIterNext
  \/ SIterResume
  \/ SIterLeave
  \/ SPush
  \/ SEnd
  \/ SClose
  \/ SNext
  \/ SCancel

SpecS == InitS /\ [][NextS]_vars

InitP ==
  /\ pl \in {DbPoolBase_new(k) : k \in PoolCalls}
  /\ qc = QueueConn_new(TRUE)
  /\ dc = DbConnBase_new(TRUE, FALSE)
  /\ tx = DbTxnBase_new("none", "none")
  /\ rs = RowStream_new(1, 1, FALSE)
  /\ sr = SqliteRows_new(FALSE)
  /\ rw = Row_none
  /\ em = AsyncEventEmitter_new

NextP ==
  \/ PGet
  \/ PGetFails
  \/ PCall
  \/ PPoolClose
  \/ PSubmit
  \/ PConnClose
  \/ PDriverSettles
  \/ PTimer
  \/ PComplete
  \/ PCancelCtx
  \/ PCatch

SpecP == InitP /\ [][NextP]_vars

InitW ==
  /\ rw \in {Row_new("object", o, <<>>, c) : <<o, c>> \in
               UNION {{<<o, c>> : o \in ObjectsFor(c)} : c \in ColLists}}
            \cup
            {Row_new("array", <<>>, a, c) : <<a, c>> \in
               UNION {{<<a, c>> : a \in ArraysFor(c)} : c \in ColLists}}
  /\ qc = QueueConn_new(TRUE)
  /\ dc = DbConnBase_new(TRUE, FALSE)
  /\ tx = DbTxnBase_new("none", "none")
  /\ rs = RowStream_new(1, 1, FALSE)
  /\ sr = SqliteRows_new(FALSE)
  /\ pl = DbPoolBase_new("conn")
  /\ em = AsyncEventEmitter_new

NextW ==
  \/ WToArray
  \/ WToObject
  \/ WGetOrdinal
  \/ WGetName

SpecW == InitW /\ [][NextW]_vars

InitX ==
  /\ dc \in {DbConnBase_new(k, FALSE) : k \in BOOLEAN}
  /\ tx = DbTxnBase_new("none", "none")
  /\ qc = QueueConn_new(TRUE)
  /\ rs = RowStream_new(1, 1, FALSE)
  /\ sr = SqliteRows_new(FALSE)
  /\ pl = DbPoolBase_new("conn")
  /\ rw = Row_none
  /\ em = AsyncEventEmitter_new

NextX ==
  \/ XStart
  \/ XDriverSettles
  \/ XTimer
  \/ XCursorComplete
  \/ XOp
  \/ XFinish

SpecX == InitX /\ [][NextX]_vars

InitE ==
  /\ em = AsyncEventEmitter_new
  /\ qc = QueueConn_new(TRUE)
  /\ dc = DbConnBase_new(TRUE, FALSE)
  /\ tx = DbTxnBase_new("none", "none")
  /\ rs = RowStream_new(1, 1, FALSE)
  /\ sr = SqliteRows_new(FALSE)
  /\ pl = DbPoolBase_new("conn")
  /\ rw = Row_none

NextE ==
  \/ EOn
  \/ EOff
  \/ EEmit
  \/ ESettle

SpecE == InitE /\ [][NextE]_vars

(***************************************************************************)
(* What the claims speak of.                                               *)
(***************************************************************************)

\* Nothing is in flight around the connection: no driver call is pending,
\* no #next is scheduled, no cursor or transaction is open. From such a
\* state only a new call from outside makes the connection act.
QQuiescent == qc.drv = {} /\ qc.timers = 0 /\ qc.open = {} /\ qc.handlers = <<>>
DQuiescent == dc.drv = {} /\ dc.timers = 0 /\ dc.open = {}

QOpenOf(s, type) == {op \in s.open : op.type = type}

\* C1: QueueConn starts the driver calls in the order the operations were
\* submitted (operations are numbered in submission order): the started
\* calls are in increasing order, the waiting operations are in increasing
\* order and all later than every started one. And it never starts a call
\* while another has not settled.
C1_FifoNoOverlap ==
  /\ Cardinality(qc.drv) <= 1
  /\ \A a, b \in 1..Len(qc.log) : a < b => qc.log[a] < qc.log[b]
  /\ \A a, b \in 1..Len(qc.opQueue) : a < b => qc.opQueue[a].id < qc.opQueue[b].id
  /\ \A op \in Range(qc.opQueue) : \A i \in Range(qc.log) : i < op.id

C1_Witness ==
  /\ Len(qc.log) >= 3
  /\ qc.drv # {}
  /\ \E op \in qc.drv : op.type = "query"
  /\ \E i \in Range(qc.log) : qc.ph[i] = "rejected"

\* C2: in QueueConn, as long as the cursor of a resolved query stays open
\* (it has not emitted 'complete'), no operation is dispatched; and when
\* the driver's query call fails, the next #next is scheduled at once, with
\* no cursor to wait for.
C2_Step ==
  /\ (QOpenOf(qc, "query") \cap qc'.open # {}) => qc'.log = qc.log
  /\ \A op \in qc.drv \ qc'.drv :
       (op.type = "query" /\ op \notin qc'.open)
         => (qc'.timers = qc.timers + 1 /\ qc'.open = qc.open)

C2_CursorHoldsQueue == [][C2_Step]_vars

C2_Witness ==
  \E op \in qc.open :
    /\ op.type = "query"
    /\ \E i \in 1..(op.id - 1) : qc.ph[i] = "rejected"
    /\ qc.opQueue # <<>>

\* C3: in DbConnBase, as long as the cursor of a resolved query stays open
\* (it has not emitted 'complete'), no operation is dequeued or dispatched.
C3_Step == (QOpenOf(dc, "query") \cap dc'.open # {}) => dc'.log = dc.log

C3_CursorHoldsScheduler == [][C3_Step]_vars

\* C4 (QueueConn's half): as long as a transaction stays open no operation
\* is dispatched, at most one transaction is open, and a failed beginTxn
\* schedules the next #next at once.
C4_QStep ==
  /\ (QOpenOf(qc, "beginTxn") \cap qc'.open # {}) => qc'.log = qc.log
  /\ Cardinality(QOpenOf(qc, "beginTxn")) <= 1
  /\ \A op \in qc.drv \ qc'.drv :
       (op.type = "beginTxn" /\ op \notin qc'.open)
         => qc'.timers = qc.timers + 1

C4_QueueConnHoldsForTxn == [][C4_QStep]_vars

\* C4 (DbConnBase's half): as long as a transaction stays open no operation
\* is dispatched, at most one transaction is open, and a failed beginTxn
\* schedules the next #next at once.
C4_DStep ==
  /\ (QOpenOf(dc, "beginTxn") \cap dc'.open # {}) => dc'.log = dc.log
  /\ Cardinality(QOpenOf(dc, "beginTxn")) <= 1
  /\ \A op \in dc.drv \ dc'.drv :
       (op.type = "beginTxn" /\ op \notin dc'.open)
         => dc'.timers = dc.timers + 1

C4_TxnHoldsQueue == [][C4_DStep]_vars

\* C5: when the root context of a DbConnBase is cancelled while operations
\* wait in the queue, each of them is rejected with 'Connection was
\* canceled', the queue is empty, the connection refuses further calls, and
\* no operation rejected this way is ever dispatched.
C5_Step ==
  /\ (~dc.rootCanceled /\ dc'.rootCanceled /\ dc.opQueue # <<>>)
       => /\ \A op \in Range(dc.opQueue) : dc'.ph[op.id] = "connCanceled"
          /\ dc'.opQueue = <<>>
          /\ ~DbConnBase_checkStatus(dc')
  /\ \A i \in 1..Len(dc.ph) :
       dc.ph[i] = "connCanceled" => i \notin Range(dc'.log)

C5_CancelRejectsQueued == [][C5_Step]_vars

\* C6: once the root context of a DbConnBase has been cancelled and nothing
\* is in flight any more, 'complete' has fired exactly once.
C6_CompleteOnceAfterCancel ==
  (dc.rootCanceled /\ DQuiescent) => dc.complete = 1

C7_AllResolved ==
  /\ \A k \in 1..Len(qc.closeRet) : qc.closeRet[k].ret \in {0} \cup qc.resolvedP
  /\ qc.complete = 1

C7_Safety ==
  /\ qc.complete <= 1
  /\ \A k \in 1..Len(qc.closeRet) :
       qc.closeRet[k].pending # 0 => qc.closeRet[k].ret = qc.closeRet[k].pending
  /\ (Len(qc.closeRet) > 0 /\ QQuiescent) => C7_AllResolved

\* C7: in QueueConn 'complete' is emitted at most once; a close() called
\* while a close is pending returns that pending promise; once close() has
\* been called and nothing is in flight any more, every promise close()
\* returned is resolved and 'complete' has been emitted exactly once; and
\* after any close() call that point is eventually reached.
C7_CloseIdempotent ==
  /\ []C7_Safety
  /\ [](Len(qc.closeRet) > 0 => <>C7_AllResolved)

C7_Witness ==
  /\ Len(qc.closeRet) >= 2
  /\ qc.closeRet[2].pending # 0
  /\ Len(qc.log) >= 2
  /\ qc.complete = 1

\* C8: in DbConnBase a close() called while a close is pending returns that
\* pending promise.
C8_SamePendingClose ==
  \A k \in 1..Len(dc.closeRet) :
    dc.closeRet[k].pending # 0 => dc.closeRet[k].ret = dc.closeRet[k].pending

\* C9: in DbConnBase, once close() has been called and nothing is in flight
\* any more, every promise close() returned is resolved and 'complete' has
\* fired.
C9_CloseResolves ==
  (Len(dc.closeRet) > 0 /\ DQuiescent)
    => /\ \A k \in 1..Len(dc.closeRet) :
            dc.closeRet[k].ret \in {0} \cup dc.resolvedP
       /\ dc.complete >= 1

\* C10: in QueueConn, once close() has been called no exec/queryRow/query/
\* beginTxn call is accepted (none adds an operation), and close() itself
\* leaves the operations accepted before it as they are.
C10_Step ==
  /\ Len(qc.closeRet) > 0 => Len(qc'.ph) = Len(qc.ph)
  /\ Len(qc'.closeRet) > Len(qc.closeRet)
       => /\ qc'.ph = qc.ph
          /\ qc'.opQueue = qc.opQueue
          /\ qc'.drv = qc.drv

C10_RefusedAfterClose == [][C10_Step]_vars

\* C11: in QueueConn, when no caller's context has been cancelled (so every
\* rejection comes from a driver call), a step settles only the promise of
\* the operation whose driver call settled, and every operation waiting in
\* the queue either is still waiting after the step or has been taken by
\* #next (its driver call started, or it was rejected by #next itself).
C11_Step ==
  qc'.cancels = 0 =>
    /\ \A i \in 1..Len(qc.ph) :
         qc'.ph[i] # qc.ph[i] => i \in Ids(qc.drv \ qc'.drv) \cup Ids(Range(qc.opQueue))
    /\ \A op \in Range(qc.opQueue) :
         \/ op \in Range(qc'.opQueue)
         \/ op.id \in Range(qc'.log)
         \/ qc'.ph[op.id] = "rejected"

C11_DriverErrorIsolated == [][C11_Step]_vars

\* The transaction as its caller knows it: Started once a start() call has
\* resolved and as long as no commit() or rollback() call was let through.
TxStartOk == \E k \in 1..Len(tx.starts) : tx.starts[k] = "resolved"
TxFinished == tx.finCall # "none"
TxIsStarted == TxStartOk /\ ~TxFinished
TxStartFailed ==
  \/ tx.startPhase = "closing"
  \/ \E k \in 1..Len(tx.starts) : tx.starts[k] = "rejected"
TxCloseCalls == Cardinality({k \in 1..Len(tx.ilog) : tx.ilog[k] = "close"})

\* C12: an exec/queryRow/query call on a DbTxnBase is given to the inner
\* connection only while the transaction is Started; in any other state it
\* throws 'Transaction is not yet started' (no start() has succeeded) or
\* 'Transaction is already closed' (after commit/rollback) and nothing is
\* called on the inner connection.
C12_Step ==
  tx'.ncalls > tx.ncalls =>
    IF TxIsStarted
    THEN tx'.callRes \in {"sent", "connClosed"}
    ELSE /\ tx'.callRes = IF TxFinished THEN "alreadyClosed" ELSE "notStarted"
         /\ tx'.ilog = tx.ilog

C12_OnlyWhileStarted == [][C12_Step]_vars

C12_Witness ==
  /\ tx.ncalls >= 2
  /\ \E k \in 1..Len(tx.ilog) : tx.ilog[k] \in TxOps
  /\ tx.callRes = "alreadyClosed"
  /\ "close" \in Range(tx.ilog)

\* C13: when a start() call on a DbTxnBase fails, close() has been called on
\* the inner connection and its promise has resolved by the time start()
\* rejects; a transaction that was not Started when start() failed does not
\* become Started later, and every later commit() or rollback() throws
\* 'Transaction is not yet started'.
C13_Step ==
  /\ \A k \in 1..Len(tx.starts) :
       (tx.starts[k] = "pending" /\ tx'.starts[k] = "rejected")
         => ("close" \in Range(tx.ilog) /\ tx.closeDone)
  /\ (tx'.startPhase = "closing" /\ tx.startPhase # "closing")
       => tx'.ilog = Append(tx.ilog, "close")
  /\ (TxStartFailed /\ ~tx.started)
       => /\ ~tx'.started
          /\ tx'.nfin > tx.nfin => tx'.finRes = "notStarted"

C13_StartFailureCloses == [][C13_Step]_vars

C13_Witness ==
  /\ tx.starts = <<"rejected", "rejected">>
  /\ "SET" \in Range(tx.ilog)
  /\ tx.finRes = "notStarted"
  /\ ~tx.started

\* C14: on a DbTxnBase started by its one start() call, whatever commit()
\* and rollback() calls are made and however the COMMIT/ROLLBACK statement
\* settles, close() has been called on the inner connection exactly once
\* from the first of these calls on (and not at all before it).
C14_CloseOnce ==
  (tx.started /\ Len(tx.starts) = 1)
    => TxCloseCalls = IF TxFinished THEN 1 ELSE 0

C14_Witness ==
  /\ tx.started
  /\ Len(tx.starts) = 1
  /\ tx.nfin >= 2
  /\ tx.finStmt = "err"
  /\ TxCloseCalls = 1

\* C15: once a commit() or rollback() call was let through on a Started
\* DbTxnBase, every further exec/queryRow/query/commit/rollback call throws
\* 'Transaction is already closed', whether the statement is still pending,
\* has succeeded or has failed, and whatever start() calls are made.
C15_Step ==
  TxFinished =>
    /\ tx'.ncalls > tx.ncalls => (tx'.callRes = "alreadyClosed" /\ tx'.ilog = tx.ilog)
    /\ tx'.nfin > tx.nfin => (tx'.finRes = "alreadyClosed" /\ tx'.ilog = tx.ilog)

C15_ClosedAtOnce == [][C15_Step]_vars

C15_Witness ==
  /\ tx.finStmt = "pending"
  /\ tx.callRes = "alreadyClosed"
  /\ tx.finRes = "alreadyClosed"
  /\ Len(tx.starts) = 2

\* C16: a commit() (rollback()) that is let through calls exec with COMMIT
\* (ROLLBACK) on the inner connection and then close(), in this order; and
\* when its promise resolves, the statement has succeeded and the inner
\* connection's close has completed.
C16_Step ==
  /\ (tx.finCall = "none" /\ tx'.finCall # "none")
       => tx'.ilog =
            (IF Inner_accepts(tx)
             THEN Append(tx.ilog, IF tx'.finCall = "commit" THEN "COMMIT" ELSE "ROLLBACK")
             ELSE tx.ilog) \o <<"close">>
  /\ tx'.finP = "resolved" => (tx'.finStmt = "ok" /\ tx'.closeDone)

C16_StmtThenCloseThenResolve == [][C16_Step]_vars

C16_Witness ==
  /\ tx.finP = "resolved"
  /\ tx.finCall = "rollback"
  /\ tx.ilog[Len(tx.ilog)] = "close"
  /\ tx.ilog[Len(tx.ilog) - 1] = "ROLLBACK"

RowsCloseCalls == rs.closePending + rs.closeResolved
RowsLast(seq) == seq[Len(seq)]

\* C17: in RowStream the rows are loaded in the order they were pushed and,
\* as long as no cancellation was requested, none is lost (the rows loaded
\* followed by the rows buffered are the rows pushed); after the producer
\* has signalled end a next() call gives true and loads the first buffered
\* row while there is one, and false when there is none; whenever a next()
\* call has given false the cursor is closed and 'complete' has fired; and
\* signalling end while no next() is pending and no close was requested
\* leaves the cursor open.
C17_Step ==
  /\ \A k \in 1..Len(rs'.loaded) : rs'.loaded[k] = k
  /\ ~rs'.canceling => rs'.loaded \o rs'.buf = [k \in 1..rs'.pushes |-> k]
  /\ (rs.done /\ ~rs.canceling /\ ~rs.closed /\ Len(rs'.nexts) > Len(rs.nexts))
       => IF rs.buf # <<>>
          THEN RowsLast(rs'.nexts) = "true" /\ rs'.row = Head(rs.buf)
          ELSE RowsLast(rs'.nexts) = "false"
  /\ \A k \in 1..Len(rs'.nexts) :
       rs'.nexts[k] = "false" => (rs'.closed /\ rs'.complete = 1)
  /\ (~rs.done /\ rs'.done /\ ~rs.waitNext /\ ~rs.canceling)
       => (~rs'.closed /\ rs'.complete = 0 /\ rs'.buf = rs.buf)

C17_BufferedRowsThenFalse == [][C17_Step]_vars

C17_Witness ==
  /\ rs.done
  /\ rs.loaded = <<1, 2, 3>>
  /\ rs.nexts = <<"true", "true", "true", "false">>
  /\ RowsCloseCalls = 0
  /\ ~rs.canceling
  /\ rs.pauses > 0

\* C18: a close() call on a RowStream that is open, and whose producer has
\* not signalled end, makes the controller's 'cancel' handler run and its
\* promise stays pending; a close() promise is pending only as long as the
\* producer has signalled neither end nor error, and a producer's error
\* resolves it like an end; while a close is pending no next() call gives
\* true or an error, and none is left pending when the close completes.
C18_Step ==
  /\ (RowsCloseCalls' > RowsCloseCalls /\ ~rs.closed /\ ~rs.done)
       => /\ rs'.canceling
          /\ rs'.cancels = 1
          /\ rs'.closePending = rs.closePending + 1
          /\ rs'.closeResolved = rs.closeResolved
  /\ rs'.closePending > 0 => (~rs'.done /\ ~rs'.err /\ ~rs'.closed)
  /\ (rs.closePending > 0 /\ (rs'.done \/ rs'.err))
       => /\ rs'.closeResolved = rs.closeResolved + rs.closePending
          /\ ~rs'.waitNext
  /\ (rs.closePending > 0 \/ rs'.closePending > 0)
       => \A k \in 1..Len(rs'.nexts) :
            (k > Len(rs.nexts) \/ rs'.nexts[k] # rs.nexts[k])
              => rs'.nexts[k] \in {"pending", "busy", "false"}

C19_RowStreamCompleteOnce ==
  /\ rs.complete = IF rs.closed THEN 1 ELSE 0
  /\ rs.closed => rs.closePending = 0

\* C19: whatever close() calls are made on a cursor, together with next()
\* giving false, the cursor's 'complete' event fires exactly once: never
\* twice, and once as soon as close() was called.
C19_CompleteOnce ==
  /\ sr.complete <= 1
  /\ sr.closes > 0 => sr.complete = 1

\* C20: in RowStream 'pause' fires once on a push that adds a row to the
\* buffer and brings its size to pauseCount, and on no other step.
C20_Step ==
  rs'.pauses =
    IF Len(rs'.buf) = Len(rs.buf) + 1 /\ Len(rs'.buf) = rs.P
    THEN rs.pauses + 1
    ELSE rs.pauses

C20_PauseAtThreshold == [][C20_Step]_vars

C20_Witness ==
  /\ rs.P = 2
  /\ rs.R = 1
  /\ rs.pushes = 3
  /\ rs.pauses = 2
  /\ Len(rs.buf) = 2
  /\ rs.loaded = <<1>>

\* C21: in RowStream 'resume' fires once on a next() that takes a row from
\* the buffer and brings its size down to resumeCount, and on no other
\* step: not while the buffer is still above resumeCount, and not again
\* below it.
C21_Step ==
  rs'.resumes =
    IF Len(rs'.buf) = Len(rs.buf) - 1 /\ Len(rs'.buf) = rs.R
    THEN rs.resumes + 1
    ELSE rs.resumes

C21_ResumeAtThreshold == [][C21_Step]_vars

C21_Witness ==
  /\ rs.P = 2
  /\ rs.R = 1
  /\ rs.pauses = 2
  /\ rs.resumes = 2
  /\ rs.loaded = <<1, 2>>
  /\ Len(rs.buf) = 1

\* The positions of the next() calls that are pending.
RowsPending(s) == {i \in 1..Len(s.nexts) : s.nexts[i] = "pending"}

\* The owning context is cancelled in this step.
RowsCtxCancelStep ==
  /\ rs.clrReg
  /\ rs'.cancels = rs.cancels + 1
  /\ rs'.err = rs.err
  /\ rs'.closePending + rs'.closeResolved = rs.closePending + rs.closeResolved

\* C22: in RowStream a next() issued while an earlier next() is pending is
\* refused ('Existing next() call has not yet resolved') and changes nothing
\* else; the earlier call stays the one pending call, is settled by the
\* next accepted push (true), end (false), error or cancellation, and once
\* settled it keeps its result.
C22_Step ==
  /\ (rs.waitNext /\ Len(rs'.nexts) > Len(rs.nexts))
       => rs' = [rs EXCEPT !.nexts = Append(@, "busy")]
  /\ \A i \in 1..Len(rs.nexts) :
       rs.nexts[i] # "pending" => rs'.nexts[i] = rs.nexts[i]
  /\ Cardinality(RowsPending(rs')) = IF rs'.waitNext THEN 1 ELSE 0
  /\ \A i \in RowsPending(rs) :
       /\ (rs'.pushes > rs.pushes /\ rs'.dropped = rs.dropped)
            => rs'.nexts[i] = "true" /\ rs'.row = rs'.pushes
       /\ (rs'.done /\ ~rs.done) => rs'.nexts[i] = "false"
       /\ (rs'.err /\ ~rs.err) => rs'.nexts[i] \in {"error", "false"}
       /\ RowsCtxCancelStep => rs'.nexts[i] = "canceled"

C22_ConcurrentNextRefused == [][C22_Step]_vars

C22_Witness ==
  /\ Len(rs.nexts) = 3
  /\ rs.nexts[1] = "true"
  /\ rs.nexts[2] = "busy"
  /\ rs.nexts[3] = "busy"
  /\ rs.loaded = <<1>>
  /\ ~rs.waitNext

\* C23: in RowStream, when the owning context is cancelled while a next()
\* is waiting, that call rejects with the cancellation error, and in the
\* same step (so before the rejection can be observed) the cursor is closed
\* and 'complete' has fired, once.
C23_Step ==
  (RowsCtxCancelStep /\ rs.waitNext)
    => /\ \A i \in RowsPending(rs) : rs'.nexts[i] = "canceled"
       /\ ~rs'.waitNext
       /\ rs'.closed
       /\ ~rs.closed
       /\ rs.complete = 0
       /\ rs'.complete = 1

C23_CancelWhileWaiting == [][C23_Step]_vars

C23_Witness ==
  /\ rs.hasClr
  /\ rs.nexts = <<"true", "canceled">>
  /\ rs.closed
  /\ rs.complete = 1
  /\ rs.cancels = 1

\* C25: a row pushed to a RowStream after cancellation has been requested is
\* discarded: the buffer, the current row and the rows loaded so far are
\* unchanged, no next() call is settled by it, and 'pause' does not fire.
C25_Step ==
  (rs'.pushes > rs.pushes /\ rs.canceling)
    => /\ rs'.buf = rs.buf
       /\ rs'.row = rs.row
       /\ rs'.loaded = rs.loaded
       /\ rs'.nexts = rs.nexts
       /\ rs'.waitNext = rs.waitNext
       /\ rs'.pauses = rs.pauses
       /\ rs'.dropped = rs.dropped + 1

C25_PushAfterCancelDiscarded == [][C25_Step]_vars

C25_Witness ==
  /\ rs.canceling
  /\ rs.pushes = 3
  /\ rs.dropped = 1
  /\ rs.row = 1
  /\ rs.buf = <<2>>
  /\ rs.waitNext

\* The same for the cursor of the sqlite driver: once cancellation was
\* requested a pushed row changes nothing of it.
C25_SqliteRowsDiscards ==
  [][(sr'.pushes > sr.pushes /\ sr.canceling)
       => sr' = [sr EXCEPT !.pushes = @ + 1]]_vars

\* C26: when the producer of a RowStream signals an error, the cursor's err
\* is that error, or the default error when the value is null; a pending
\* next() rejects with the cursor's err (when no close() had been
\* requested); the producer's 'cancel' handler has been invoked, once in
\* all; the cursor is closed and 'complete' has fired, once.
C26_Step ==
  (rs'.err /\ ~rs.err)
    => /\ rs'.errIn \in ErrInputs
       /\ rs'.errIn = "null" => rs'.errVal = "Underlying stream encountered an error"
       /\ rs'.errIn # "null" => rs'.errVal = rs'.errIn
       /\ \A i \in RowsPending(rs) :
            ~rs.canceling => /\ rs'.nexts[i] = "error"
                             /\ rs'.nextErr = rs'.errVal
       /\ ~rs'.waitNext
       /\ rs'.canceling
       /\ rs'.cancels = 1
       /\ ~rs.canceling => rs.cancels = 0
       /\ rs'.closed
       /\ rs'.complete = 1
       /\ ~rs.closed => rs.complete = 0

C24_IterationClosesOnce ==
  sr.it = "left" => /\ sr.closes >= 1
                    /\ sr.done
                    /\ sr.complete = 1

\* C27: when the promise returned by exec or queryRow called directly on
\* the pool has resolved, the connection that ran the statement is closed
\* and has been released to the pool.
C27_ResolvesAfterRelease ==
  (pl.kind \in {"exec", "queryRow"} /\ pl.res = "resolved")
    => (qc.closed /\ pl.released = 1)

\* Nothing is in flight on the pool's QueueConn, and the connection is one
\* that closes: made for a single operation, or closed by its holder or by
\* the pool.
PoolConnSpent ==
  /\ pl.acquired = 1
  /\ pl.phase = "called"
  /\ QQuiescent
  /\ (pl.kind # "conn" \/ Len(qc.closeRet) > 0 \/ pl.closed)

\* C28: the driver connection DbPoolBase acquired is released at most once,
\* and once when nothing is in flight any more on a connection that
\* closes; it is released in the very step in which its QueueConn emits
\* 'complete', and in that step the QueueConn's queue is empty, no driver
\* call is pending, no #next is scheduled, no cursor or transaction is open
\* and the promise of every operation that was started is settled.
C28_Step ==
  /\ pl'.released <= pl'.acquired
  /\ pl'.released = IF pl'.acquired = 1 THEN qc'.complete ELSE 0
  /\ pl'.live <=> (pl'.acquired = 1 /\ pl'.released = 0)
  /\ pl'.released > pl.released
       => /\ qc'.complete = qc.complete + 1
          /\ qc'.closed
          /\ qc'.opQueue = <<>>
          /\ qc'.drv = {}
          /\ qc'.timers = 0
          /\ qc'.open = {}
          /\ \A i \in Range(qc'.log) : qc'.ph[i] # "pending"
  /\ PoolConnSpent' => pl'.released = 1

RowDeclared(i) == IF rw.kind = "object" THEN rw.obj[rw.cols[i]] ELSE rw.arr[i]

\* C29: for a row made by Row.fromObject or Row.fromArray of data that
\* holds every declared column and possibly more, Row.toArray gives the
\* declared columns' values in declared order, Row.toObject gives an object
\* whose keys are the declared column names, and the value under cols[i] is
\* what the row gives for the ordinal i and for the name cols[i].
C29_RowViewsAgree ==
  /\ rw.hasA => rw.outA = [i \in 1..Len(rw.cols) |-> RowDeclared(i)]
  /\ rw.hasO => /\ DOMAIN rw.outO = Range(rw.cols)
                /\ \A i \in 1..Len(rw.cols) : rw.outO[rw.cols[i]] = RowDeclared(i)
  /\ \A i \in 1..Len(rw.cols) :
       (rw.hasO /\ rw.getKey \in {OrdKey(i - 1), rw.cols[i]})
         => rw.getVal = rw.outO[rw.cols[i]]

\* C29 (Row.fromObject's half, and Row.fromArray's for columns whose name
\* is not the name of a member of the array): the same.
C29_ExceptArrayMembers ==
  (rw.kind = "object" \/ "length" \notin Range(rw.cols)) => C29_RowViewsAgree

\* C30: in DbConnBase at most one driver call is pending, at most one #next
\* chain is active (a pending driver call or a scheduled #next), and busy
\* is true whenever a driver call is pending.
C30_OneSchedulerPass ==
  /\ Cardinality(dc.drv) <= 1
  /\ Cardinality(dc.drv) + dc.timers <= 1
  /\ dc.drv # {} => dc.busy

\* C31: in QueueConn, when the context of an operation that was already
\* dequeued (its driver call is in flight, or its cursor or transaction is
\* open) is cancelled, the catch handler that runs for it leaves the queue
\* of waiting operations as it is.
C31_Step ==
  ( /\ qc.handlers # <<>>
    /\ qc'.handlers = Tail(qc.handlers)
    /\ Head(qc.handlers) \in Ids(qc.drv \cup qc.open) )
    => qc'.opQueue = qc.opQueue

C31_CancelOfDequeuedKeepsQueue == [][C31_Step]_vars

\* C32: in DbConnBase the close sequence (#done: cleanUp, resolve the
\* pending close, emit 'complete') runs at most once, and once 'complete'
\* has been emitted no operation is accepted and none is dispatched.
C32_Step ==
  /\ dc'.complete <= 1
  /\ dc.complete > 0 => (Len(dc'.ph) = Len(dc.ph) /\ dc'.log = dc.log)

C32_CloseSequenceOnce == [][C32_Step]_vars

\* The transaction over a DbConnBase has ended: commit() or rollback() got
\* past #checkStatus, or start() failed.
XTxnEnded == tx.closed \/ tx.startPhase = "closing"

\* C33: a DbTxnBase whose connection is a DbConnBase emits 'complete' at
\* most once and only after it has ended (commit() or rollback() was
\* invoked, or start() failed), so never while it is open; and once it has
\* ended and nothing is in flight on its connection, 'complete' has fired.
C33_TxnCompleteWhenEnded ==
  /\ tx.complete <= 1
  /\ tx.complete > 0 => XTxnEnded
  /\ (XTxnEnded /\ DQuiescent) => tx.complete = 1

\* C34: a QueueConn operation whose context is cancelled while it waits in
\* the queue (its promise is rejected with the cancellation error and its
\* driver call has not been started) is never given to the driver, and the
\* catch handler that finds it in the queue removes it alone and keeps the
\* order of the others.
C34_Step ==
  /\ \A i \in 1..Len(qc.ph) :
       (qc.ph[i] = "canceled" /\ i \notin Range(qc.log)) => i \notin Range(qc'.log)
  /\ ( /\ qc.handlers # <<>>
       /\ qc'.handlers = Tail(qc.handlers)
       /\ Head(qc.handlers) \in Ids(Range(qc.opQueue)) )
       => qc'.opQueue = SelectSeq(qc.opQueue, LAMBDA o : o.id # Head(qc.handlers))
C34_CancelledWaitingNeverDispatched == [][C34_Step]_vars

\* The operations of DbConnBase that are outstanding: their driver call is
\* in flight, or their cursor or transaction is open.
DOutstanding == dc.drv \cup dc.open

\* C35: every cancel callback DbConnBase has registered on the root
\* canceler belongs to an operation that is outstanding: the callback of an
\* operation is taken off when the operation ends, so with nothing
\* outstanding the root canceler holds no callback of an operation.
C35_CallbacksOfOutstandingOnly == dc.cbs \subseteq Ids(DOutstanding)

\* An operation with a context of another canceler has run and ended, its
\* callback was taken off, and nothing is outstanding.
C35_Witness ==
  /\ dc.hasClr
  /\ dc.offs > 0
  /\ DOutstanding = {}
  /\ dc.cbs = {}

\* C36: when the root context is cancelled, the context given to the driver
\* is cancelled for every outstanding operation, whether the caller's
\* context has the root's canceler or not.
C36_Step ==
  (dc.hasClr /\ ~dc.rootCanceled /\ dc'.rootCanceled)
    => DOutstanding \subseteq dc'.drvCanceled
C36_RootCancelReachesDriver == [][C36_Step]_vars

\* The root was cancelled with an operation of each kind of context
\* outstanding, and the driver context of both was cancelled.
C36_Witness ==
  /\ dc.rootCanceled
  /\ \E a, b \in dc.drvCanceled : a.ctx = "root" /\ b.ctx = "other"

\* close() has not been called on the QueueConn, before or in this step.
QNoCloseCall == qc.closeRet = <<>> /\ qc'.closeRet = <<>>

\* C37: when #next finds the queue of a QueueConn empty after an operation
\* has finished, a connection with keepOpen = false closes itself and emits
\* 'complete' although close() was never called; a connection with
\* keepOpen = true on which close() was never called is never closed, emits
\* no 'complete', refuses nothing, and starts the driver call of an
\* operation submitted while it is idle.
C37_Step ==
  /\ (QNoCloseCall /\ ~qc.keepOpen /\ qc.busy /\ ~qc'.busy)
       => (qc.complete = 0 /\ qc'.complete = 1 /\ qc'.closed)
  /\ (QNoCloseCall /\ qc.keepOpen)
       => /\ ~qc'.closed
          /\ qc'.complete = 0
          /\ qc'.refused = 0
          /\ (~qc.busy /\ Len(qc'.ph) > Len(qc.ph))
               => Len(qc'.ph) \in Ids(qc'.drv)
C37_KeepOpenDecidesSelfClose == [][C37_Step]_vars

\* A connection with keepOpen = false has closed itself after its
\* operation, without a call of close().
C37_Witness ==
  /\ ~qc.keepOpen
  /\ qc.closeRet = <<>>
  /\ qc.log # <<>>
  /\ qc.closed
  /\ qc.complete = 1

\* The call k of emit is over in state e.
EmitOver(e, k) == k <= Len(e.emits) /\ e.emits[k].st \in {"resolved", "rejected"}

\* The callbacks the call k of emit has invoked in state e.
RunBy(e, k) == {e.runs[i].cb : i \in {j \in 1..Len(e.runs) : e.runs[j].emit = k}}

\* The callbacks invoked in state e.
Ran(e) == {e.runs[i].cb : i \in 1..Len(e.runs)}

\* The call k of emit ends in this step.
EmitEnds(k) == ~EmitOver(em, k) /\ EmitOver(em', k)

\* C38_Body(k): the call k of emit ends resolved, with every callback
\* registered before the call invoked, unless the promise of a callback it
\* invoked has rejected or off() has been called.
C38_Body(k) ==
  ( /\ EmitEnds(k)
    /\ em'.noffs = 0
    /\ \A c \in RunBy(em', k) : em'.prom[c] # "rejected" )
    => /\ em'.emits[k].st = "resolved"
       /\ \A c \in 1..Len(em'.reg) : em'.reg[c].at < k => c \in Ran(em')

\* C38: a call of emit invokes every callback registered for the type and
\* then resolves, whatever the callbacks return (a promise, a plain object,
\* undefined); a callback that returns no promise does not keep the later
\* callbacks from being invoked.
C38_EmitRunsAllWhateverReturned ==
  [][\A k \in 1..Len(em'.emits) : C38_Body(k)]_vars

\* emit got a promise for the callback of registration c.
GavePromise(e, c) == e.reg[c].coe \/ e.reg[c].ret = "promise"

\* C39: the callbacks are invoked in the order of their registration; when
\* a call of emit has invoked a callback that is not concurrent and gave a
\* promise, every callback that call invoked later was invoked after the
\* promise had settled; and a call of emit that has resolved has no promise
\* of a callback it invoked, concurrent or not, still pending.
C39_OrderAndAwait ==
  /\ \A i, j \in 1..Len(em.runs) : i < j => em.runs[i].cb < em.runs[j].cb
  /\ \A i, j \in 1..Len(em.runs) :
       ( /\ i < j
         /\ em.runs[i].emit = em.runs[j].emit
         /\ GavePromise(em, em.runs[i].cb)
         /\ ~em.reg[em.runs[i].cb].concurrent )
       => em.prom[em.runs[i].cb] # "pending"
  /\ \A k \in 1..Len(em.emits) :
       em.emits[k].st = "resolved"
         => \A c \in RunBy(em, k) : em.prom[c] # "pending"

\* A call of emit has invoked a concurrent callback whose promise is still
\* pending, has invoked a later callback without waiting for it, and now
\* waits for the promise in Promise.all.
C39_Witness ==
  \E k \in 1..Len(em.emits) :
    /\ em.emits[k].st = "awaitAll"
    /\ \E c, d \in RunBy(em, k) :
         /\ c < d
         /\ em.reg[c].concurrent
         /\ em.prom[c] = "pending"

\* C40: a registration is invoked at most once; a call of emit after the
\* first invokes only callbacks registered after the first call of emit had
\* started; and a callback registered by a callback that a call of emit
\* invoked has been invoked by that same call when it is over (off() not
\* having been called).
C40_OncePerRegistration ==
  /\ \A i, j \in 1..Len(em.runs) : i # j => em.runs[i].cb # em.runs[j].cb
  /\ \A i \in 1..Len(em.runs) :
       em.runs[i].emit > 1 => em.reg[em.runs[i].cb].at >= 1
  /\ \A c \in 1..Len(em.reg) :
       (em.reg[c].by > 0 /\ EmitOver(em, em.reg[c].by) /\ em.noffs = 0)
         => c \in RunBy(em, em.reg[c].by)

====
